---- MODULE Spec2Model ----
(***************************************************************************)
(* Scenario engine of the fatty-acid FBA tools: WorkingFBAOptimizer        *)
(* (fba_optimizer.py), CellFreeSimulator (cell_free_simulator.py) and the  *)
(* growth-floored solves of growth_production_analysis.py.                 *)
(*                                                                         *)
(* Rates and bounds are integers in tenths of mmol/gDW/h: 1000.0 is 10000, *)
(* 1.0 is 10 and 0.1 is 1.                                                 *)
(*                                                                         *)
(* The LP solver (cobra's Model.optimize) is an external collaborator: a   *)
(* solve is a nondeterministic choice of a status and, when optimal, of    *)
(* fluxes that respect the bounds of the model solved.                     *)
(***************************************************************************)
EXTENDS Integers, Sequences, FiniteSets, TLC

VARIABLES
    network,             \* the model data cobra.io.load_model(model_name) reads
    model,               \* WorkingFBAOptimizer.model
    original_model,      \* WorkingFBAOptimizer.original_model
    shared,              \* TRUE iff model and original_model are one object
    demand_reactions,    \* WorkingFBAOptimizer.demand_reactions
    cellular_model,      \* CellFreeSimulator.cellular_model
    cell_free_model,     \* CellFreeSimulator.cell_free_model: <<>> is None
    cf_demand_reactions, \* CellFreeSimulator.demand_reactions
    call                 \* the last call: operation, arguments, outcome

vars == <<network, model, original_model, shared, demand_reactions,
          cellular_model, cell_free_model, cf_demand_reactions, call>>

fba_vars == <<model, original_model, shared, demand_reactions>>

cf_vars == <<cellular_model, cell_free_model, cf_demand_reactions>>

-----------------------------------------------------------------------------
(* Program constants *)

\* fatty_acid_map, in the insertion order of the dict
fatty_acid_names ==
    <<"butanoic_acid", "hexanoic_acid", "octanoic_acid",
      "decanoic_acid", "dodecanoic_acid", "tetradecanoic_acid">>

fatty_acid_map ==
    [butanoic_acid      |-> "btcoa_c",
     hexanoic_acid      |-> "hxcoa_c",
     octanoic_acid      |-> "occoa_c",
     decanoic_acid      |-> "dcacoa_c",
     dodecanoic_acid    |-> "ddcacoa_c",
     tetradecanoic_acid |-> "tdcoa_c"]

\* f"DM_{met_id}"
demand_id_of ==
    [btcoa_c   |-> "DM_btcoa_c",
     hxcoa_c   |-> "DM_hxcoa_c",
     occoa_c   |-> "DM_occoa_c",
     dcacoa_c  |-> "DM_dcacoa_c",
     ddcacoa_c |-> "DM_ddcacoa_c",
     tdcoa_c   |-> "DM_tdcoa_c"]

\* demand_rxn.upper_bound = 1000
DemandUpper == 10000

\* min(rxn.upper_bound, 1.0)
MaintenanceCap == 10

BIOMASS == "BIOMASS_Ec_iML1515_core_75p37M"

\* the medium every solve uses unless one is given; the first entry is the
\* substrate's
mineral_medium ==
    [EX_o2_e      |-> 200,
     EX_pi_e      |-> 10000,
     EX_nh4_e     |-> 10000,
     EX_so4_e     |-> 10000,
     EX_mg2_e     |-> 10000,
     EX_k_e       |-> 10000,
     EX_fe2_e     |-> 10000,
     EX_ca2_e     |-> 10000,
     EX_mn2_e     |-> 10000,
     EX_zn2_e     |-> 10000,
     EX_cu2_e     |-> 10000,
     EX_cobalt2_e |-> 10000,
     EX_mobd_e    |-> 10000]

-----------------------------------------------------------------------------
(* Small helpers *)

Abs(x) == IF x < 0 THEN -x ELSE x

Min(a, b) == IF a < b THEN a ELSE b

Max(a, b) == IF a > b THEN a ELSE b

\* dict.get(key, default) and Series.get(key, default)
Get(f, k, d) == IF k \in DOMAIN f THEN f[k] ELSE d

\* f with key k set to v, added when absent (dict[k] = v)
Put(f, k, v) == [x \in DOMAIN f \cup {k} |-> IF x = k THEN v ELSE f[x]]

\* {**f, **g}
Merge(f, g) == [x \in DOMAIN f \cup DOMAIN g |-> IF x \in DOMAIN g THEN g[x] ELSE f[x]]

RECURSIVE Gcd(_, _)
Gcd(a, b) == IF b = 0 THEN a ELSE Gcd(b, a % b)

\* the float n / d (d > 0), kept exact as a fraction in lowest terms
Fraction(n, d) ==
    LET g == Gcd(Abs(n), d) IN <<n \div g, d \div g>>

Zero == <<0, 1>>

FracLess(a, b) == a[1] * b[2] < b[1] * a[2]

Rxn(lb, ub, st) == [lower_bound |-> lb, upper_bound |-> ub, metabolites |-> st]

-----------------------------------------------------------------------------
(* The networks load_model may return: an iML1515-like network reduced to  *)
(* the reactions the tools name, in four variants.                         *)

ExchangeIds ==
    DOMAIN mineral_medium \cup {"EX_glc__D_e", "EX_for_e", "EX_ac_e", "EX_h2o_e"}

\* the metabolite of each exchange reaction, all in compartment e
exchange_met ==
    [EX_glc__D_e  |-> "glc__D_e",
     EX_for_e     |-> "for_e",
     EX_ac_e      |-> "ac_e",
     EX_h2o_e     |-> "h2o_e",
     EX_o2_e      |-> "o2_e",
     EX_pi_e      |-> "pi_e",
     EX_nh4_e     |-> "nh4_e",
     EX_so4_e     |-> "so4_e",
     EX_mg2_e     |-> "mg2_e",
     EX_k_e       |-> "k_e",
     EX_fe2_e     |-> "fe2_e",
     EX_ca2_e     |-> "ca2_e",
     EX_mn2_e     |-> "mn2_e",
     EX_zn2_e     |-> "zn2_e",
     EX_cu2_e     |-> "cu2_e",
     EX_cobalt2_e |-> "cobalt2_e",
     EX_mobd_e    |-> "mobd_e"]

ExternalMets == {exchange_met[x] : x \in ExchangeIds}

\* uptake of the loaded network: glucose 10, oxygen and water free, formate
\* and acetate export only
LoadedExchange(x) ==
    Rxn(CASE x = "EX_glc__D_e" -> -100
          [] x \in {"EX_for_e", "EX_ac_e"} -> 0
          [] OTHER -> -10000,
        10000,
        [m \in {exchange_met[x]} |-> -1])

InternalReactions ==
    [BIOMASS_Ec_iML1515_core_75p37M |->
         Rxn(0, 10000, [atp_c |-> -75, accoa_c |-> -4, adp_c |-> 75]),
     BIOMASS_Ec_iML1515_WT_75p37M |->
         Rxn(0, 10000, [atp_c |-> -75, accoa_c |-> -3, adp_c |-> 75]),
     ATPM  |-> Rxn(68, 10000, [atp_c |-> -1, adp_c |-> 1]),
     ACALD |-> Rxn(-10000, 10000, [acald_c |-> -1, accoa_c |-> 1]),
     PTAr  |-> Rxn(-10000, 10000, [accoa_c |-> -1, actp_c |-> 1])]

TrackedMets == {fatty_acid_map[n] : n \in DOMAIN fatty_acid_map}

BaseMets == ExternalMets \cup {"atp_c", "adp_c", "accoa_c", "acald_c", "actp_c", "coa_c"}

Plain ==
    [reactions   |-> Merge([x \in ExchangeIds |-> LoadedExchange(x)], InternalReactions),
     metabolites |-> BaseMets \cup TrackedMets,
     objective   |-> BIOMASS]

\* a network without tetradecanoyl-CoA whose maintenance flux is already
\* capped below 1.0
NoTdcoaLowATPM ==
    [Plain EXCEPT !.metabolites = @ \ {"tdcoa_c"},
                  !.reactions = [@ EXCEPT !["ATPM"] = Rxn(0, 5, @.metabolites)]]

\* a network that already holds a reaction DM_occoa_c, with the stoichiometry
\* add_demand_reactions would give it
WithDemand ==
    [Plain EXCEPT !.reactions =
        Put(@, "DM_occoa_c", Rxn(0, DemandUpper, [occoa_c |-> -1]))]

\* a network that holds a reaction DM_occoa_c with another stoichiometry
WithOtherDemand ==
    [Plain EXCEPT !.reactions =
        Put(@, "DM_occoa_c", Rxn(0, 50, [occoa_c |-> -1, coa_c |-> 1]))]

Networks == {Plain, NoTdcoaLowATPM, WithDemand, WithOtherDemand}

-----------------------------------------------------------------------------
(* cobra's Model, as the tools use it *)

\* a copy that hands back the object itself
copy_same_object(m) == [value |-> m, shares |-> TRUE]

\* Model.copy(): a new object with the same content; shares says whether the
\* result is the object copied
copy(m) == [value |-> m, shares |-> FALSE]

\* 'BIOMASS' in rxn.id or 'biomass' in rxn.name.lower()
IsBiomass(id) == id \in {"BIOMASS_Ec_iML1515_core_75p37M", "BIOMASS_Ec_iML1515_WT_75p37M"}

\* 'ATPM' in rxn.id or 'maintenance' in rxn.name.lower()
IsMaintenance(id) == id = "ATPM"

\* Model.exchanges: boundary reactions of one external metabolite
IsExchange(m, id) ==
    /\ id \in DOMAIN m.reactions
    /\ Cardinality(DOMAIN m.reactions[id].metabolites) = 1
    /\ DOMAIN m.reactions[id].metabolites \subseteq ExternalMets

SetBounds(m, id, lb, ub) ==
    [m EXCEPT !.reactions[id].lower_bound = lb, !.reactions[id].upper_bound = ub]

\* Model.add_reactions([rxn]) for a reaction the model does not hold
add_reactions(m, id, rxn) ==
    IF id \in DOMAIN m.reactions THEN m
    ELSE [m EXCEPT !.reactions = Put(@, id, rxn)]

\* set_active_bound of cobra's medium setter: the uptake side of a boundary
\* reaction is its lower bound when the metabolite is a reactant
set_active_bound(rxn, bound) ==
    IF \E x \in DOMAIN rxn.metabolites : rxn.metabolites[x] < 0
    THEN [rxn EXCEPT !.lower_bound = -bound]
    ELSE IF \E x \in DOMAIN rxn.metabolites : rxn.metabolites[x] > 0
         THEN [rxn EXCEPT !.upper_bound = bound]
         ELSE rxn

\* a medium setter that leaves alone what the medium does not list
close_uptake_never(rxn) == rxn

\* what the medium setter does to an exchange reaction the medium does not
\* list: its uptake side is turned off
close_uptake(rxn) ==
    LET is_export == /\ \E x \in DOMAIN rxn.metabolites : rxn.metabolites[x] < 0
                     /\ ~ \E x \in DOMAIN rxn.metabolites : rxn.metabolites[x] > 0
    IN  set_active_bound(rxn, Min(0, IF is_export THEN -rxn.lower_bound
                                                  ELSE rxn.upper_bound))

\* opt_model.medium = medium.  b is the call in flight: the exception raised
\* so far ("none" when none) and the model being built.
set_medium(b, medium) ==
    IF b.raised # "none" THEN b
    ELSE IF ~ (DOMAIN medium \subseteq DOMAIN b.model.reactions)
    THEN [b EXCEPT !.raised = "KeyError"]
    ELSE [b EXCEPT !.model.reactions =
            [id \in DOMAIN @ |->
                IF id \in DOMAIN medium THEN set_active_bound(@[id], medium[id])
                ELSE IF IsExchange(b.model, id) THEN close_uptake(@[id])
                ELSE @[id]]]

\* Reaction.knock_out()
knock_out(m, id) == SetBounds(m, id, 0, 0)

\* a knockout pass that lets the KeyError of an unknown id through
apply_knockout_strict(b, ko) ==
    IF b.raised # "none" THEN b
    ELSE IF ko \in DOMAIN b.model.reactions
         THEN [b EXCEPT !.model = knock_out(@, ko)]
         ELSE [b EXCEPT !.raised = "KeyError"]

\* one pass of the knockout loop: an unknown id is logged and skipped
apply_knockout(b, ko) ==
    IF b.raised # "none" THEN b
    ELSE IF ko \in DOMAIN b.model.reactions
         THEN [b EXCEPT !.model = knock_out(@, ko)]
         ELSE b

RECURSIVE apply_knockouts(_, _)
apply_knockouts(b, knockouts) ==
    IF knockouts = <<>> THEN b
    ELSE apply_knockouts(apply_knockout(b, Head(knockouts)), Tail(knockouts))

\* an objective step that keeps the objective of the model for a product the
\* registry does not hold
set_objective_lenient(b, registry, name) ==
    IF b.raised # "none" THEN b
    ELSE IF name \notin DOMAIN registry THEN b
    ELSE [b EXCEPT !.model.objective = registry[name]]

\* demand_id = self.demand_reactions[name]; opt_model.objective = demand_id
set_objective(b, registry, name) ==
    IF b.raised # "none" THEN b
    ELSE IF name \notin DOMAIN registry THEN [b EXCEPT !.raised = "KeyError"]
    ELSE [b EXCEPT !.model.objective = registry[name]]

-----------------------------------------------------------------------------
(* The solver *)

Statuses == {"optimal", "infeasible", "unbounded"}

\* the values a flux is sampled at: the ends of its range
FluxValues(rxn) == {rxn.lower_bound, rxn.upper_bound}

RECURSIVE Assignments(_, _)
\* the flux assignments over keys that respect the bounds of m
Assignments(m, keys) ==
    IF keys = {} THEN {<<>>}
    ELSE LET k == CHOOSE x \in keys : TRUE
         IN  {Put(f, k, v) : f \in Assignments(m, keys \ {k}),
                             v \in FluxValues(m.reactions[k])}

\* Model.optimize(): the solutions it may return, projected on the fluxes the
\* caller reads (observed) and the objective.  With a status other than
\* optimal the values of the solution mean nothing.
Solve(m, observed) ==
    LET keys == (observed \cap DOMAIN m.reactions) \cup {m.objective}
    IN  {[status |-> "optimal", objective_value |-> f[m.objective], fluxes |-> f] :
            f \in Assignments(m, keys)}
        \cup
        {[status |-> s, objective_value |-> v, fluxes |-> [k \in keys |-> v]] :
            s \in Statuses \ {"optimal"}, v \in {0, DemandUpper}}

-----------------------------------------------------------------------------
(* WorkingFBAOptimizer *)

\* one pass of the loop of add_demand_reactions; s holds model and
\* demand_reactions
\* a demand step that leaves a reaction the model already holds unregistered
add_demand_reaction_unregistered(s, name) ==
    LET met_id == fatty_acid_map[name]
        demand_id == demand_id_of[met_id]
    IN  IF met_id \notin s.model.metabolites THEN s
        ELSE IF demand_id \notin DOMAIN s.model.reactions
        THEN [model |-> add_reactions(s.model, demand_id,
                                      Rxn(0, DemandUpper, [x \in {met_id} |-> -1])),
              demand_reactions |-> Put(s.demand_reactions, name, demand_id)]
        ELSE s

\* a demand step that builds the reaction anew over the one the model holds
add_demand_reaction_rebuilt(s, name) ==
    LET met_id == fatty_acid_map[name]
        demand_id == demand_id_of[met_id]
    IN  IF met_id \notin s.model.metabolites THEN s
        ELSE [model |-> [s.model EXCEPT !.reactions =
                            Put(@, demand_id,
                                Rxn(0, DemandUpper, [x \in {met_id} |-> -1]))],
              demand_reactions |-> Put(s.demand_reactions, name, demand_id)]

add_demand_reaction(s, name) ==
    LET met_id == fatty_acid_map[name]
        demand_id == demand_id_of[met_id]
    IN  IF met_id \notin s.model.metabolites THEN s
        ELSE IF demand_id \notin DOMAIN s.model.reactions
        THEN [model |-> add_reactions(s.model, demand_id,
                                      Rxn(0, DemandUpper, [x \in {met_id} |-> -1])),
              demand_reactions |-> Put(s.demand_reactions, name, demand_id)]
        ELSE [s EXCEPT !.demand_reactions = Put(@, name, demand_id)]

RECURSIVE add_demand_loop(_, _)
add_demand_loop(s, names) ==
    IF names = <<>> THEN s
    ELSE add_demand_loop(add_demand_reaction(s, Head(names)), Tail(names))

\* the default medium of optimize_fatty_acid_production
default_medium == Put(mineral_medium, "EX_glc__D_e", 100)

\* optimize_fatty_acid_production up to the solve.  medium is <<>> for None
\* and <<map>> otherwise; knockouts is <<>> for None and for [].
build_fatty_acid_model(m, registry, name, medium, knockouts) ==
    LET b0 == [raised |-> "none", model |-> m]
        given == medium # <<>> /\ DOMAIN medium[1] # {}
        b1 == set_medium(b0, IF given THEN medium[1] ELSE default_medium)
        b2 == apply_knockouts(b1, knockouts)
    IN  IF name \notin DOMAIN fatty_acid_map
        THEN [b0 EXCEPT !.raised = "ValueError"]
        ELSE set_objective(b2, registry, name)

\* a yield whose guard lets the rate through at zero uptake
yield_of_unguarded(rate, uptake) ==
    IF uptake > 0 THEN Fraction(rate, uptake) ELSE <<rate, 1>>

\* the yield of a result: rate / uptake as a fraction, 0 when uptake is 0
yield_of(rate, uptake) == IF uptake > 0 THEN Fraction(rate, uptake) ELSE Zero

\* a results dict that reads the solution whatever its status
fatty_acid_results_unchecked(name, solution, opt_model) ==
    LET glucose_uptake == Abs(Get(solution.fluxes, "EX_glc__D_e", 0))
    IN  [fatty_acid |-> name,
         production_rate |-> solution.objective_value,
         status |-> solution.status,
         growth_rate |-> Get(solution.fluxes, BIOMASS, 0),
         glucose_uptake |-> glucose_uptake,
         oxygen_uptake |-> Abs(Get(solution.fluxes, "EX_o2_e", 0)),
         solution |-> solution,
         model |-> opt_model,
         yield_mol_per_mol_glucose |->
             yield_of(solution.objective_value, glucose_uptake)]

\* the results dict of optimize_fatty_acid_production
fatty_acid_results(name, solution, opt_model) ==
    IF solution.status = "optimal"
    THEN LET glucose_uptake == Abs(Get(solution.fluxes, "EX_glc__D_e", 0))
         IN  [fatty_acid |-> name,
              production_rate |-> solution.objective_value,
              status |-> solution.status,
              growth_rate |-> Get(solution.fluxes, BIOMASS, 0),
              glucose_uptake |-> glucose_uptake,
              oxygen_uptake |-> Abs(Get(solution.fluxes, "EX_o2_e", 0)),
              solution |-> solution,
              model |-> opt_model,
              yield_mol_per_mol_glucose |->
                  yield_of(solution.objective_value, glucose_uptake)]
    ELSE [fatty_acid |-> name,
          production_rate |-> 0,
          status |-> solution.status,
          error |-> "Optimization failed"]

\* the fluxes optimize_fatty_acid_production reads
FattyAcidObserved == {BIOMASS, "EX_glc__D_e", "EX_o2_e"}

\* the ways a call optimize_fatty_acid_production on an optimizer with model m
\* may end: the exception raised, the model built, the answer of the solver,
\* the dict returned, and self.model after the call
fatty_acid_runs(m, registry, name, medium, knockouts) ==
    LET c == copy(m)
        b == build_fatty_acid_model(c.value, registry, name, medium, knockouts)
        after == IF c.shares THEN b.model ELSE m
    IN  IF b.raised # "none"
        THEN {[raised |-> b.raised, opt_model |-> b.model, solution |-> <<>>,
               results |-> <<>>, model |-> after]}
        ELSE {[raised |-> "none", opt_model |-> b.model, solution |-> solution,
               results |-> fatty_acid_results(name, solution, b.model),
               model |-> after] :
                 solution \in Solve(b.model, FattyAcidObserved)}

\* an improvement that leaves out the factor 100
improvement_of_ratio(rate, baseline_rate) ==
    IF baseline_rate > 0
    THEN Fraction(rate - baseline_rate, baseline_rate)
    ELSE Zero

\* (result - baseline) / baseline * 100 if baseline > 0 else 0
improvement_of(rate, baseline_rate) ==
    IF baseline_rate > 0
    THEN Fraction((rate - baseline_rate) * 100, baseline_rate)
    ELSE Zero

\* what screen_knockouts reads of a call optimize_fatty_acid_production
screened(run) ==
    [raised |-> run.raised,
     has_growth_rate |-> run.raised = "none" /\ "growth_rate" \in DOMAIN run.results,
     production_rate |-> Get(run.results, "production_rate", 0),
     growth_rate |-> Get(run.results, "growth_rate", 0),
     model |-> run.model]

\* results.append({...}) for the baseline
baseline_row(base) ==
    [knockouts |-> "none",
     production_rate |-> base.production_rate,
     growth_rate |-> base.growth_rate,
     improvement |-> Zero]

\* results.append({...}) for a candidate
candidate_row(ko, r, baseline_rate) ==
    [knockouts |-> ko,
     production_rate |-> r.production_rate,
     growth_rate |-> r.growth_rate,
     improvement |-> improvement_of(r.production_rate, baseline_rate)]

\* a candidate loop in which a failure drops the candidates before it
try_candidate_restarting(rows, ko, r, baseline_rate) ==
    IF r.has_growth_rate
    THEN Append(rows, candidate_row(ko, r, baseline_rate))
    ELSE <<rows[1]>>

\* a candidate loop that appends a row whatever the call gave
try_candidate_always(rows, ko, r, baseline_rate) ==
    Append(rows, candidate_row(ko, r, baseline_rate))

\* the try block of the candidate loop, given what the call for ko gave: an
\* exception of the call, and the KeyError of reading 'growth_rate' from a
\* result that is not optimal, are logged and the candidate leaves no row
try_candidate(rows, ko, r, baseline_rate) ==
    IF r.has_growth_rate
    THEN Append(rows, candidate_row(ko, r, baseline_rate))
    ELSE rows

\* one pass of the candidate loop of screen_knockouts: s holds self.model and
\* the rows so far
screen_candidate(s, registry, name, baseline_rate, ko) ==
    {[model |-> r.model,
      rows |-> try_candidate(s.rows, ko, r, baseline_rate)] :
        r \in {screened(run) :
                 run \in fatty_acid_runs(s.model, registry, name, <<>>, <<ko>>)}}

RECURSIVE screen_loop(_, _, _, _, _)
screen_loop(s, registry, name, baseline_rate, candidates) ==
    IF candidates = <<>> THEN {s}
    ELSE UNION {screen_loop(t, registry, name, baseline_rate, Tail(candidates)) :
                  t \in screen_candidate(s, registry, name, baseline_rate,
                                         Head(candidates))}

\* a sort that leaves the rows as they were appended
sort_values_as_appended(rows) == {rows}

\* DataFrame(results).sort_values('improvement', ascending=False): the rows
\* in an order of descending improvement; the sort is not a stable one, so
\* rows of equal improvement come in any order
sort_values(rows) ==
    LET n == Len(rows)
        orders == {p \in [1..n -> 1..n] :
                     /\ \A i, j \in 1..n : i # j => p[i] # p[j]
                     /\ \A i, j \in 1..n :
                          i < j => ~ FracLess(rows[p[i]].improvement,
                                              rows[p[j]].improvement)}
    IN  {[i \in 1..n |-> rows[p[i]]] : p \in orders}

\* the ways a call screen_knockouts may end
screen_runs(m, registry, name, candidates) ==
    UNION {
        IF base.raised # "none"
        THEN {[raised |-> base.raised, results |-> <<>>, model |-> base.model]}
        ELSE IF ~ base.has_growth_rate
        THEN {[raised |-> "KeyError", results |-> <<>>, model |-> base.model]}
        ELSE UNION {
               {[raised |-> "none", results |-> table, model |-> s.model] :
                   table \in sort_values(s.rows)} :
               s \in screen_loop(
                       [model |-> base.model, rows |-> <<baseline_row(base)>>],
                       registry, name, base.production_rate, candidates)} :
        base \in {screened(run) : run \in fatty_acid_runs(m, registry, name, <<>>, <<>>)}}

-----------------------------------------------------------------------------
(* CellFreeSimulator *)

\* the biomass loop of create_cell_free_model, for one reaction
\* a biomass step that closes the lower bound only
zero_biomass_lower_only(id, rxn) ==
    IF IsBiomass(id) THEN [rxn EXCEPT !.lower_bound = 0] ELSE rxn

zero_biomass(id, rxn) ==
    IF IsBiomass(id) THEN [rxn EXCEPT !.lower_bound = 0, !.upper_bound = 0] ELSE rxn

\* a maintenance step that sets the cap whatever the upper bound was
reduce_maintenance_to_cap(id, rxn) ==
    IF IsMaintenance(id)
    THEN [rxn EXCEPT !.lower_bound = 0, !.upper_bound = MaintenanceCap]
    ELSE rxn

\* the maintenance loop of create_cell_free_model, for one reaction
reduce_maintenance(id, rxn) ==
    IF IsMaintenance(id)
    THEN [rxn EXCEPT !.lower_bound = 0, !.upper_bound = Min(@, MaintenanceCap)]
    ELSE rxn

\* one pass of the loop of _add_demand_reactions; s holds model and
\* demand_reactions
cf_add_demand_reaction(s, name) ==
    LET met_id == fatty_acid_map[name]
        demand_id == demand_id_of[met_id]
    IN  IF met_id \notin s.model.metabolites THEN s
        ELSE IF demand_id \notin DOMAIN s.model.reactions
        THEN [model |-> add_reactions(s.model, demand_id,
                                      Rxn(0, DemandUpper, [x \in {met_id} |-> -1])),
              demand_reactions |-> Put(s.demand_reactions, name, demand_id)]
        ELSE s

RECURSIVE cf_add_demand_loop(_, _)
cf_add_demand_loop(s, names) ==
    IF names = <<>> THEN s
    ELSE cf_add_demand_loop(cf_add_demand_reaction(s, Head(names)), Tail(names))

\* create_cell_free_model on the copy m of the cellular model, with the
\* registry as it stands; the result holds the model built and the registry
build_cell_free_model(m, registry) ==
    LET m1 == [m EXCEPT !.reactions =
                  [id \in DOMAIN @ |-> zero_biomass(id, @[id])]]
        m2 == [m1 EXCEPT !.reactions =
                  [id \in DOMAIN @ |-> reduce_maintenance(id, @[id])]]
    IN  cf_add_demand_loop([model |-> m2, demand_reactions |-> registry],
                           fatty_acid_names)

\* the medium of optimize_cell_free_production, <<>> when the substrate is
\* none of the three
substrate_medium(substrate, substrate_uptake) ==
    CASE substrate = "glucose" -> <<Put(mineral_medium, "EX_glc__D_e", substrate_uptake)>>
      [] substrate = "formate" -> <<Put(mineral_medium, "EX_for_e", substrate_uptake)>>
      [] substrate = "acetate" -> <<Put(mineral_medium, "EX_ac_e", substrate_uptake)>>
      [] OTHER -> <<>>

\* f'EX_{substrate[0:3]}_e'
uptake_key(substrate) ==
    CASE substrate = "glucose" -> "EX_glu_e"
      [] substrate = "formate" -> "EX_for_e"
      [] substrate = "acetate" -> "EX_ace_e"
      [] substrate = "xylose"  -> "EX_xyl_e"

\* optimize_cell_free_production from the copy to the solve
build_cell_free_opt_model(m, registry, name, substrate, substrate_uptake) ==
    LET b0 == [raised |-> "none", model |-> m]
        medium == substrate_medium(substrate, substrate_uptake)
        b1 == IF medium = <<>> THEN b0 ELSE set_medium(b0, medium[1])
    IN  set_objective(b1, registry, name)

\* the results dict of optimize_cell_free_production
cell_free_results(name, substrate, substrate_uptake, solution, opt_model) ==
    IF solution.status = "optimal"
    THEN LET actual == Abs(Get(solution.fluxes, uptake_key(substrate), 0))
         IN  [fatty_acid |-> name,
              substrate |-> substrate,
              substrate_uptake |-> substrate_uptake,
              production_rate |-> solution.objective_value,
              status |-> solution.status,
              growth_rate |-> 0,
              substrate_uptake_actual |-> actual,
              atp_consumption |-> Abs(Get(solution.fluxes, "ATPM", 0)),
              solution |-> solution,
              model |-> opt_model,
              yield_mol_per_mol_substrate |->
                  yield_of(solution.objective_value, actual),
              specific_productivity |-> solution.objective_value]
    ELSE [fatty_acid |-> name,
          substrate |-> substrate,
          production_rate |-> 0,
          status |-> solution.status,
          error |-> "Optimization failed"]

\* the exchange reaction whose uptake the medium of a substrate sets
substrate_exchange(substrate) ==
    CASE substrate = "glucose" -> {"EX_glc__D_e"}
      [] substrate = "formate" -> {"EX_for_e"}
      [] substrate = "acetate" -> {"EX_ac_e"}
      [] OTHER -> {}

\* the fluxes optimize_cell_free_production reads, with the flux of the
\* exchange reaction of the substrate and the growth fluxes
CellFreeObserved(substrate) ==
    {uptake_key(substrate), "ATPM"} \cup substrate_exchange(substrate)
        \cup {id \in DOMAIN InternalReactions : IsBiomass(id)}

\* the simulator after "if self.cell_free_model is None:
\* self.create_cell_free_model()"
ensure_cell_free_model(cellular, cell_free, registry) ==
    IF cell_free = <<>>
    THEN LET c == copy(cellular)
             s == build_cell_free_model(c.value, registry)
         IN  [cellular_model |-> IF c.shares THEN s.model ELSE cellular,
              cell_free_model |-> s.model,
              demand_reactions |-> s.demand_reactions]
    ELSE [cellular_model |-> cellular,
          cell_free_model |-> cell_free[1],
          demand_reactions |-> registry]

\* the ways a call optimize_cell_free_production may end, with the simulator
\* after the call
cell_free_runs(cellular, cell_free, registry, name, substrate, substrate_uptake) ==
    LET sim == ensure_cell_free_model(cellular, cell_free, registry)
        c == copy(sim.cell_free_model)
        b == IF name \notin DOMAIN fatty_acid_map
             THEN [raised |-> "ValueError", model |-> sim.cell_free_model]
             ELSE build_cell_free_opt_model(c.value, sim.demand_reactions, name,
                                            substrate, substrate_uptake)
        after == [sim EXCEPT !.cell_free_model = IF c.shares THEN b.model ELSE @]
    IN  IF b.raised # "none"
        THEN {[raised |-> b.raised, opt_model |-> b.model, solution |-> <<>>,
               results |-> <<>>, sim |-> after]}
        ELSE {[raised |-> "none", opt_model |-> b.model, solution |-> solution,
               results |-> cell_free_results(name, substrate, substrate_uptake,
                                             solution, b.model),
               sim |-> after] :
                 solution \in Solve(b.model, CellFreeObserved(substrate))}

-----------------------------------------------------------------------------
(* Growth-floored solves: analyze_growth_production_tradeoff and           *)
(* compare_cellular_vs_cell_free                                           *)

\* np.linspace(0, 0.8, 9)
growth_constraints == 0..8

\* the floor compare_cellular_vs_cell_free forces: lower_bound = 0.1
CompareFloor == 1

\* optimizer = WorkingFBAOptimizer(); optimizer.add_demand_reactions()
fresh_optimizer(net) ==
    add_demand_loop([model |-> net, demand_reactions |-> <<>>], fatty_acid_names)

\* model.reactions.get_by_id(BIOMASS).lower_bound = floor
set_growth_floor(b, floor) ==
    IF b.raised # "none" THEN b
    ELSE IF BIOMASS \notin DOMAIN b.model.reactions
    THEN [b EXCEPT !.raised = "KeyError"]
    ELSE [b EXCEPT !.model.reactions[BIOMASS].lower_bound = floor]

\* the growth-floored model of both functions, from the copy to the solve
build_growth_floored_model(m, registry, name, floor) ==
    set_objective(set_growth_floor([raised |-> "none", model |-> m], floor),
                  registry, name)

\* the row analyze_growth_production_tradeoff appends for one growth rate
tradeoff_row(growth_rate, solution) ==
    IF solution.status = "optimal"
    THEN [growth_constraint |-> growth_rate,
          actual_growth |-> Get(solution.fluxes, BIOMASS, 0),
          production_rate |-> solution.objective_value,
          glucose_uptake |-> Abs(Get(solution.fluxes, "EX_glc__D_e", 0)),
          status |-> solution.status]
    ELSE [growth_constraint |-> growth_rate,
          actual_growth |-> 0,
          production_rate |-> 0,
          glucose_uptake |-> 0,
          status |-> solution.status]

\* cellular_results of compare_cellular_vs_cell_free: the solution is read
\* whatever its status
cellular_results(solution) ==
    [production_rate |-> solution.objective_value,
     growth_rate |-> Get(solution.fluxes, BIOMASS, 0),
     glucose_uptake |-> Abs(Get(solution.fluxes, "EX_glc__D_e", 0)),
     atp_maintenance |-> Abs(Get(solution.fluxes, "ATPM", 0)),
     system_type |-> "cellular"]

\* cell-free rate / cellular rate if the cellular rate is > 0 else 0
production_improvement(cell_free_rate, cellular_rate) ==
    IF cellular_rate > 0 THEN Fraction(cell_free_rate, cellular_rate) ELSE Zero

\* the fluxes the growth-floored solves read
TradeoffObserved == {BIOMASS, "EX_glc__D_e"}

CompareObserved == {BIOMASS, "EX_glc__D_e", "ATPM"}

-----------------------------------------------------------------------------
(* Inputs *)

\* the longest knockout list given to optimize_fatty_acid_production
MaxKnockouts == 2

\* the longest candidate list given to screen_knockouts
MaxCandidates == 2

\* product names asked for: two supported ones and one that is not
ProductInputs == {"octanoic_acid", "tetradecanoic_acid", "palmitic_acid"}

\* reaction ids given as knockouts: one of the network, one unknown
KnockoutIds == {"ACALD", "NOT_A_REACTION"}

SeqsUpTo(S, n) == UNION {[1..k -> S] : k \in 0..n}

\* None, {}, an acetate medium, and a medium naming an unknown reaction
MediumInputs ==
    {<<>>,
     << <<>> >>,
     << [EX_ac_e |-> 150, EX_o2_e |-> 200] >>,
     << [EX_glc__D_e |-> 100, EX_unknown_e |-> 10] >>}

\* substrates asked for: the three with a medium and one without
SubstrateInputs == {"glucose", "formate", "acetate", "xylose"}

UptakeInputs == {0, 100}

-----------------------------------------------------------------------------
(* The calls.  call holds the outcome of the last one until the caller has *)
(* taken it.                                                               *)

\* no call is in progress and no result is waiting for the caller
NoCall == [op |-> "idle", args |-> <<>>, raised |-> "none"]

\* the outcome of a call that returns nothing
Done(op) == [op |-> op, args |-> <<>>, raised |-> "none"]

\* the outcome of a call that ended as run
Called(op, args, run) ==
    [op |-> op, args |-> args, raised |-> run.raised, opt_model |-> run.opt_model,
     solution |-> run.solution, results |-> run.results]

\* the caller takes the outcome of the last call; the next call starts from
\* here
return_to_caller ==
    /\ call # NoCall
    /\ call' = NoCall
    /\ UNCHANGED <<network, fba_vars, cf_vars>>

add_demand_reactions ==
    LET s == add_demand_loop([model |-> model, demand_reactions |-> demand_reactions],
                             fatty_acid_names)
    IN  /\ call = NoCall
        /\ model' = s.model
        /\ demand_reactions' = s.demand_reactions
        /\ original_model' = IF shared THEN s.model ELSE original_model
        /\ call' = Done("add_demand_reactions")
        /\ UNCHANGED <<network, shared, cf_vars>>

\* a reset that copies the working model in place of the original
reset_model_from_current ==
    LET c == copy(model)
    IN  /\ call = NoCall
        /\ model' = c.value
        /\ shared' = c.shares
        /\ demand_reactions' = <<>>
        /\ call' = Done("reset_model")
        /\ UNCHANGED <<network, original_model, cf_vars>>

\* a reset that puts the model back and keeps the registry
reset_model_keeping_registry ==
    LET c == copy(original_model)
    IN  /\ call = NoCall
        /\ model' = c.value
        /\ shared' = c.shares
        /\ call' = Done("reset_model")
        /\ UNCHANGED <<network, original_model, demand_reactions, cf_vars>>

reset_model ==
    LET c == copy(original_model)
    IN  /\ call = NoCall
        /\ model' = c.value
        /\ shared' = c.shares
        /\ demand_reactions' = <<>>
        /\ call' = Done("reset_model")
        /\ UNCHANGED <<network, original_model, cf_vars>>

optimize_fatty_acid_production(name, medium, knockouts) ==
    /\ call = NoCall
    /\ \E run \in fatty_acid_runs(model, demand_reactions, name, medium, knockouts) :
          /\ call' = Called("optimize_fatty_acid_production",
                            <<name, medium, knockouts>>, run)
          /\ model' = run.model
          /\ original_model' = IF shared THEN run.model ELSE original_model
    /\ UNCHANGED <<network, shared, demand_reactions, cf_vars>>

screen_knockouts(name, candidates) ==
    /\ call = NoCall
    /\ \E run \in screen_runs(model, demand_reactions, name, candidates) :
          /\ call' = [op |-> "screen_knockouts", args |-> <<name, candidates>>,
                      raised |-> run.raised, results |-> run.results]
          /\ model' = run.model
          /\ original_model' = IF shared THEN run.model ELSE original_model
    /\ UNCHANGED <<network, shared, demand_reactions, cf_vars>>

create_cell_free_model ==
    LET c == copy(cellular_model)
        s == build_cell_free_model(c.value, cf_demand_reactions)
    IN  /\ call = NoCall
        /\ cell_free_model' = <<s.model>>
        /\ cf_demand_reactions' = s.demand_reactions
        /\ cellular_model' = IF c.shares THEN s.model ELSE cellular_model
        /\ call' = Done("create_cell_free_model")
        /\ UNCHANGED <<network, fba_vars>>

optimize_cell_free_production(name, substrate, substrate_uptake) ==
    /\ call = NoCall
    /\ \E run \in cell_free_runs(cellular_model, cell_free_model, cf_demand_reactions,
                                 name, substrate, substrate_uptake) :
          /\ call' = Called("optimize_cell_free_production",
                            <<name, substrate, substrate_uptake>>, run)
          /\ cellular_model' = run.sim.cellular_model
          /\ cell_free_model' = <<run.sim.cell_free_model>>
          /\ cf_demand_reactions' = run.sim.demand_reactions
    /\ UNCHANGED <<network, fba_vars>>

\* one pass of the loop of analyze_growth_production_tradeoff, for one growth
\* rate of growth_constraints; optimizer_model is the model of its optimizer
\* after the pass
analyze_growth_production_tradeoff(growth_rate) ==
    LET optimizer == fresh_optimizer(network)
        c == copy(optimizer.model)
        b == build_growth_floored_model(c.value, optimizer.demand_reactions,
                                        "octanoic_acid", growth_rate)
        out == [op |-> "analyze_growth_production_tradeoff",
                args |-> <<growth_rate>>, raised |-> b.raised,
                optimizer_model |-> IF c.shares THEN b.model ELSE optimizer.model,
                opt_model |-> b.model, solution |-> <<>>, results |-> <<>>]
    IN  /\ call = NoCall
        /\ \/ /\ b.raised # "none"
              /\ call' = out
           \/ /\ b.raised = "none"
              /\ \E solution \in Solve(b.model, TradeoffObserved) :
                    call' = [out EXCEPT !.solution = solution,
                                        !.results = tradeoff_row(growth_rate, solution)]
        /\ UNCHANGED <<network, fba_vars, cf_vars>>

compare_cellular_vs_cell_free(name) ==
    LET optimizer == fresh_optimizer(network)
        c == copy(optimizer.model)
        b == build_growth_floored_model(c.value, optimizer.demand_reactions,
                                        name, CompareFloor)
        out == [op |-> "compare_cellular_vs_cell_free",
                args |-> <<name>>, raised |-> b.raised,
                optimizer_model |-> IF c.shares THEN b.model ELSE optimizer.model,
                opt_model |-> b.model, solution |-> <<>>, results |-> <<>>]
    IN  /\ call = NoCall
        /\ \/ /\ b.raised # "none"
              /\ call' = out
              /\ UNCHANGED cf_vars
           \/ /\ b.raised = "none"
              /\ \E solution \in Solve(b.model, CompareObserved),
                    run \in cell_free_runs(cellular_model, cell_free_model,
                                           cf_demand_reactions, name, "glucose", 100) :
                    /\ cellular_model' = run.sim.cellular_model
                    /\ cell_free_model' = <<run.sim.cell_free_model>>
                    /\ cf_demand_reactions' = run.sim.demand_reactions
                    /\ call' =
                         [out EXCEPT
                            !.raised = run.raised,
                            !.solution = solution,
                            !.results =
                               IF run.raised # "none" THEN <<>>
                               ELSE [fatty_acid |-> name,
                                     cellular |-> cellular_results(solution),
                                     cell_free |-> run.results,
                                     production_improvement |->
                                        production_improvement(
                                            run.results.production_rate,
                                            solution.objective_value)]]
        /\ UNCHANGED <<network, fba_vars>>

\* the substrates dict of test_substrate_preferences, in insertion order
substrates == << <<"glucose", 100>>, <<"formate", 200>>, <<"acetate", 150>> >>

\* f'Error: {e}'
error_status(raised) ==
    CASE raised = "ValueError" -> "Error: ValueError"
      [] raised = "KeyError" -> "Error: KeyError"
      [] OTHER -> "Error"

\* the row test_substrate_preferences appends for one substrate, as a list of
\* one row: the row of the result, or the row of zeros of the except clause,
\* which a result without the key 'yield_mol_per_mol_substrate' reaches by a
\* KeyError
substrate_row(substrate, uptake_rate, run) ==
    IF run.raised = "none" /\ "yield_mol_per_mol_substrate" \in DOMAIN run.results
    THEN <<[substrate |-> substrate,
            uptake_rate |-> uptake_rate,
            production_rate |-> run.results.production_rate,
            yield |-> run.results.yield_mol_per_mol_substrate,
            status |-> run.results.status]>>
    ELSE <<[substrate |-> substrate,
            uptake_rate |-> uptake_rate,
            production_rate |-> 0,
            yield |-> Zero,
            status |-> error_status(IF run.raised = "none" THEN "KeyError"
                                    ELSE run.raised)]>>

\* the loop of test_substrate_preferences from the simulator s.sim with the
\* rows s.rows: the ways it may end
RECURSIVE substrate_loop(_, _, _)
substrate_loop(s, name, todo) ==
    IF todo = <<>> THEN {s}
    ELSE UNION {
           substrate_loop(
               [sim |-> run.sim,
                rows |-> s.rows \o substrate_row(Head(todo)[1], Head(todo)[2], run)],
               name, Tail(todo)) :
           run \in cell_free_runs(s.sim.cellular_model,
                                  <<s.sim.cell_free_model>>,
                                  s.sim.demand_reactions, name,
                                  Head(todo)[1], Head(todo)[2])}

test_substrate_preferences(name) ==
    LET sim == ensure_cell_free_model(cellular_model, cell_free_model,
                                      cf_demand_reactions)
    IN  /\ call = NoCall
        /\ \E s \in substrate_loop([sim |-> sim, rows |-> <<>>], name, substrates) :
              /\ call' = [op |-> "test_substrate_preferences", args |-> <<name>>,
                          raised |-> "none", results |-> s.rows]
              /\ cellular_model' = s.sim.cellular_model
              /\ cell_free_model' = <<s.sim.cell_free_model>>
              /\ cf_demand_reactions' = s.sim.demand_reactions
        /\ UNCHANGED <<network, fba_vars>>

-----------------------------------------------------------------------------
(* The system *)

Init ==
    /\ network \in Networks
    /\ model = network
    /\ original_model = copy(network).value
    /\ shared = copy(network).shares
    /\ demand_reactions = <<>>
    /\ cellular_model = network
    /\ cell_free_model = <<>>
    /\ cf_demand_reactions = <<>>
    /\ call = NoCall

Next ==
    \/ return_to_caller
    \/ add_demand_reactions
    \/ reset_model
    \/ \E name \in ProductInputs, medium \in MediumInputs,
          knockouts \in SeqsUpTo(KnockoutIds, MaxKnockouts) :
            optimize_fatty_acid_production(name, medium, knockouts)
    \/ \E name \in ProductInputs, candidates \in SeqsUpTo(KnockoutIds, MaxCandidates) :
            screen_knockouts(name, candidates)
    \/ create_cell_free_model
    \/ \E name \in ProductInputs, substrate \in SubstrateInputs,
          substrate_uptake \in UptakeInputs :
            optimize_cell_free_production(name, substrate, substrate_uptake)
    \/ \E growth_rate \in growth_constraints :
            analyze_growth_production_tradeoff(growth_rate)
    \/ \E name \in ProductInputs : compare_cellular_vs_cell_free(name)
    \/ \E name \in ProductInputs : test_substrate_preferences(name)

Spec == Init /\ [][Next]_vars

-----------------------------------------------------------------------------
(* Properties *)

ProductsOf(m) == {n \in DOMAIN fatty_acid_map : fatty_acid_map[n] \in m.metabolites}

DemandOf(name) == demand_id_of[fatty_acid_map[name]]

\* C1: copy isolation.  No call of optimize_fatty_acid_production or
\* screen_knockouts changes self.model (or original_model); no call of
\* create_cell_free_model, optimize_cell_free_production or
\* compare_cellular_vs_cell_free changes cellular_model; a cell-free model
\* that exists is not changed by optimize_cell_free_production; and the
\* growth-floored solves leave the model of their optimizer as
\* add_demand_reactions made it.  Medium, knockouts, floor and objective go
\* to the copy only.
CopyIsolation ==
    [][/\ call'.op \in {"optimize_fatty_acid_production", "screen_knockouts"}
            => model' = model /\ original_model' = original_model
       /\ call'.op \in {"create_cell_free_model", "optimize_cell_free_production",
                        "compare_cellular_vs_cell_free"}
            => cellular_model' = cellular_model
       /\ (/\ call'.op \in {"optimize_cell_free_production",
                            "compare_cellular_vs_cell_free"}
           /\ cell_free_model # <<>>)
            => cell_free_model' = cell_free_model
       /\ call'.op \in {"analyze_growth_production_tradeoff",
                        "compare_cellular_vs_cell_free"}
            => call'.optimizer_model = fresh_optimizer(network).model]_vars

\* a solve with a medium and a knockout that changed the copy, and one of a
\* cell-free model with a medium
CopyIsolationWitness ==
    /\ call.op = "optimize_fatty_acid_production"
    /\ call.raised = "none"
    /\ "ACALD" \in {call.args[3][i] : i \in DOMAIN call.args[3]}
    /\ call.opt_model.reactions["ACALD"] # model.reactions["ACALD"]
    /\ call.opt_model.objective # model.objective
    /\ cell_free_model # <<>>

IsDemandOf(rxn, met_id) ==
    /\ rxn.lower_bound = 0
    /\ rxn.upper_bound = DemandUpper
    /\ rxn.metabolites = [x \in {met_id} |-> -1]

Loaded(name) == DemandOf(name) \in DOMAIN network.reactions

Conflicting(name) ==
    /\ Loaded(name)
    /\ network.reactions[DemandOf(name)].metabolites
         # [x \in {fatty_acid_map[name]} |-> -1]

AddedTwice ==
    add_demand_loop([model |-> model, demand_reactions |-> demand_reactions],
                    fatty_acid_names)
      = [model |-> model, demand_reactions |-> demand_reactions]

\* C2 as stated: after add_demand_reactions every tracked product whose
\* metabolite is in the model has its reaction DM_<met> with bounds (0, 1000)
\* and stoichiometry {met: -1}, demand_reactions maps the product to it, and
\* a second call leaves the state of the first.
DemandAdditionAsStated ==
    call.op = "add_demand_reactions" =>
        /\ \A n \in ProductsOf(model) :
              /\ DemandOf(n) \in DOMAIN model.reactions
              /\ IsDemandOf(model.reactions[DemandOf(n)], fatty_acid_map[n])
              /\ n \in DOMAIN demand_reactions
              /\ demand_reactions[n] = DemandOf(n)
        /\ AddedTwice

\* C2: after add_demand_reactions every tracked product whose metabolite is in
\* the model has one reaction DM_<met> and demand_reactions maps exactly these
\* products to it; the reaction has bounds (0, 1000) and stoichiometry
\* {met: -1} when the call built it, and is the loaded reaction, as loaded,
\* when the network came with one of that id; no other reaction is added or
\* changed; a second call leaves the state of the first.
DemandAddition ==
    call.op = "add_demand_reactions" =>
        /\ \A n \in ProductsOf(model) :
              /\ DemandOf(n) \in DOMAIN model.reactions
              /\ IF Loaded(n)
                 THEN model.reactions[DemandOf(n)] = network.reactions[DemandOf(n)]
                 ELSE IsDemandOf(model.reactions[DemandOf(n)], fatty_acid_map[n])
              /\ n \in DOMAIN demand_reactions
              /\ demand_reactions[n] = DemandOf(n)
        /\ DOMAIN demand_reactions = ProductsOf(model)
        /\ DOMAIN model.reactions
             = DOMAIN network.reactions \cup {DemandOf(n) : n \in ProductsOf(model)}
        /\ \A id \in DOMAIN network.reactions :
              model.reactions[id] = network.reactions[id]
        /\ AddedTwice

\* the call met a loaded demand reaction of other bounds and built others
DemandAdditionWitness ==
    /\ call.op = "add_demand_reactions"
    /\ \E n \in ProductsOf(model) :
          /\ Loaded(n)
          /\ ~ IsDemandOf(model.reactions[DemandOf(n)], fatty_acid_map[n])
    /\ \E n \in ProductsOf(model) : ~ Loaded(n)

\* C3 as stated: a demand reaction that is already in the model the cell-free
\* builder copies is reused, and its product is registered in the
\* simulator's demand_reactions under that id.
CellFreeDuplicateRegistered ==
    call.op = "create_cell_free_model" =>
        \A n \in ProductsOf(cell_free_model[1]) :
            /\ DemandOf(n) \in DOMAIN cell_free_model[1].reactions
            /\ n \in DOMAIN cf_demand_reactions
            /\ cf_demand_reactions[n] = DemandOf(n)

\* C4 as stated: adding a demand reaction whose id is taken by a reaction of
\* another stoichiometry raises DuplicateReactionError.
DuplicateConflictRaises ==
    (/\ call.op \in {"add_demand_reactions", "create_cell_free_model"}
     /\ \E n \in ProductsOf(network) : Conflicting(n))
        => call.raised = "DuplicateReactionError"

\* C4: adding a demand reaction whose id is taken never raises, whether the
\* reaction in place has the same stoichiometry or another: the reaction in
\* place is kept as it is, in the optimizer's model and in the cell-free model.
DuplicateDemandKept ==
    call.op \in {"add_demand_reactions", "create_cell_free_model"} =>
        /\ call.raised = "none"
        /\ \A n \in ProductsOf(network) :
              Loaded(n) =>
                /\ call.op = "add_demand_reactions"
                     => model.reactions[DemandOf(n)] = network.reactions[DemandOf(n)]
                /\ call.op = "create_cell_free_model"
                     => cell_free_model[1].reactions[DemandOf(n)]
                          = network.reactions[DemandOf(n)]

\* both builders have met a loaded reaction of another stoichiometry
DuplicateDemandKeptWitness ==
    /\ call.op = "add_demand_reactions"
    /\ cell_free_model # <<>>
    /\ \E n \in ProductsOf(network) : Conflicting(n)

SolveOps == {"optimize_fatty_acid_production", "optimize_cell_free_production"}

\* the model the call in hand copied
BaseOf(c) ==
    IF c.op = "optimize_fatty_acid_production" THEN model ELSE cell_free_model[1]

\* the medium the call in hand assigned, <<>> when it assigned none
MediumOf(c) ==
    IF c.op = "optimize_fatty_acid_production"
    THEN IF c.args[2] # <<>> /\ DOMAIN c.args[2][1] # {}
         THEN c.args[2] ELSE <<default_medium>>
    ELSE substrate_medium(c.args[2], c.args[3])

KnockedOut(c) ==
    IF c.op = "optimize_fatty_acid_production"
    THEN {c.args[3][i] : i \in DOMAIN c.args[3]} ELSE {}

\* C5 as stated: of the exchange reactions the solve opens those the medium
\* lists, to the magnitudes listed; an exchange reaction the medium does not
\* list keeps the bounds of the base model.
MediumAsStated ==
    (call.op \in SolveOps /\ call.raised = "none") =>
        \A id \in DOMAIN BaseOf(call).reactions :
            IsExchange(BaseOf(call), id) =>
                IF MediumOf(call) # <<>> /\ id \in DOMAIN MediumOf(call)[1]
                THEN call.opt_model.reactions[id].lower_bound
                        = - MediumOf(call)[1][id]
                ELSE call.opt_model.reactions[id] = BaseOf(call).reactions[id]

\* C5: the solve sets the uptake bound of each exchange reaction the medium
\* lists to the magnitude listed; an exchange reaction the medium does not
\* list has its uptake closed (lower bound raised to 0 when it was below)
\* and keeps its export bound; a reaction that is no exchange, and is not
\* knocked out, keeps its bounds; when no medium is assigned (a substrate
\* without a medium) every reaction keeps its bounds.
MediumSetsAndCloses ==
    (call.op \in SolveOps /\ call.raised = "none") =>
        \A id \in DOMAIN BaseOf(call).reactions \ KnockedOut(call) :
            LET base == BaseOf(call).reactions[id]
                rxn == call.opt_model.reactions[id]
            IN  /\ rxn.upper_bound = base.upper_bound
                /\ rxn.metabolites = base.metabolites
                /\ rxn.lower_bound =
                     IF MediumOf(call) = <<>> THEN base.lower_bound
                     ELSE IF id \in DOMAIN MediumOf(call)[1]
                          THEN - MediumOf(call)[1][id]
                     ELSE IF IsExchange(BaseOf(call), id)
                          THEN Max(base.lower_bound, 0)
                     ELSE base.lower_bound

\* a medium given by the caller opened a listed exchange and closed one it
\* does not list
MediumSetsAndClosesWitness ==
    /\ call.op = "optimize_fatty_acid_production"
    /\ call.raised = "none"
    /\ call.args[2] # <<>>
    /\ DOMAIN call.args[2][1] # {}
    /\ \E id \in DOMAIN call.args[2][1] :
          call.opt_model.reactions[id].lower_bound # model.reactions[id].lower_bound
    /\ \E id \in DOMAIN model.reactions \ DOMAIN call.args[2][1] :
          /\ IsExchange(model, id)
          /\ model.reactions[id].lower_bound < 0
          /\ call.opt_model.reactions[id].lower_bound = 0

\* C6: after create_cell_free_model every biomass reaction of the cell-free
\* model has bounds (0, 0); every maintenance reaction has lower bound 0 and
\* upper bound min(its upper bound in the cellular model, 1.0); the model
\* holds a demand reaction for each tracked product whose metabolite it
\* holds, and no other reaction is added; every other reaction is the one of
\* the cellular model.
CellFreePreset ==
    call.op = "create_cell_free_model" =>
        LET cf == cell_free_model[1]
        IN  /\ \A id \in DOMAIN cellular_model.reactions :
                  LET base == cellular_model.reactions[id]
                      rxn == cf.reactions[id]
                  IN  /\ rxn.metabolites = base.metabolites
                      /\ IF IsBiomass(id)
                         THEN rxn.lower_bound = 0 /\ rxn.upper_bound = 0
                         ELSE IF IsMaintenance(id)
                         THEN /\ rxn.lower_bound = 0
                              /\ rxn.upper_bound = Min(base.upper_bound, MaintenanceCap)
                         ELSE /\ rxn.lower_bound = base.lower_bound
                              /\ rxn.upper_bound = base.upper_bound
            /\ DOMAIN cf.reactions
                 = DOMAIN cellular_model.reactions
                     \cup {DemandOf(n) : n \in ProductsOf(cf)}
            /\ \A n \in ProductsOf(cf) :
                  ~ Loaded(n) => IsDemandOf(cf.reactions[DemandOf(n)], fatty_acid_map[n])

\* a cellular model whose maintenance upper bound is below the cap and whose
\* maintenance lower bound is not 0, with growth open and demand reactions
\* to add
CellFreePresetWitness ==
    /\ call.op = "create_cell_free_model"
    /\ cellular_model.reactions["ATPM"].upper_bound < MaintenanceCap
    /\ cell_free_model[1].reactions["ATPM"].upper_bound
         = cellular_model.reactions["ATPM"].upper_bound
    /\ cellular_model.reactions[BIOMASS].upper_bound > 0
    /\ \E n \in ProductsOf(cellular_model) : ~ Loaded(n)

GrowthReactions(m) == {id \in DOMAIN m.reactions : IsBiomass(id)}

\* C7: an optimal result of optimize_cell_free_production, alone or within
\* compare_cellular_vs_cell_free, has growth_rate 0, and the model solved
\* agrees: each of its biomass reactions has bounds (0, 0) and flux 0 in the
\* solution.
CellFreeZeroGrowth ==
    /\ (/\ call.op = "optimize_cell_free_production"
        /\ call.raised = "none"
        /\ call.results.status = "optimal")
          => /\ call.results.growth_rate = 0
             /\ GrowthReactions(call.opt_model) # {}
             /\ \A id \in GrowthReactions(call.opt_model) :
                   /\ call.opt_model.reactions[id].lower_bound = 0
                   /\ call.opt_model.reactions[id].upper_bound = 0
                   /\ call.solution.fluxes[id] = 0
    /\ (/\ call.op = "compare_cellular_vs_cell_free"
        /\ call.raised = "none"
        /\ call.results.cell_free.status = "optimal")
          => /\ call.results.cell_free.growth_rate = 0
             /\ \A id \in GrowthReactions(call.results.cell_free.model) :
                   /\ call.results.cell_free.model.reactions[id].upper_bound = 0
                   /\ call.results.cell_free.solution.fluxes[id] = 0

\* an optimal cell-free result on a substrate other than glucose, from a
\* network whose growth reactions were open
CellFreeZeroGrowthWitness ==
    /\ call.op = "optimize_cell_free_production"
    /\ call.raised = "none"
    /\ call.results.status = "optimal"
    /\ call.args[2] = "acetate"
    /\ call.results.production_rate > 0
    /\ cellular_model.reactions[BIOMASS].upper_bound > 0

GrowthFloorOps ==
    {"analyze_growth_production_tradeoff", "compare_cellular_vs_cell_free"}

\* the floor of the call in hand
FloorOf(c) ==
    IF c.op = "analyze_growth_production_tradeoff" THEN c.args[1] ELSE CompareFloor

\* what the call in hand reports of its growth-floored solve
FlooredReport(c) ==
    IF c.op = "analyze_growth_production_tradeoff" THEN c.results
    ELSE c.results.cellular

ReportedGrowth(c) ==
    IF c.op = "analyze_growth_production_tradeoff" THEN c.results.actual_growth
    ELSE c.results.cellular.growth_rate

\* C8 as stated: a growth-floored solve with floor g changes, on a copy, the
\* lower bound of the growth reaction to g and no other bound of any
\* reaction; an optimal solution is reported with a growth flux >= g; a
\* solution that is not optimal is reported with its status.
GrowthFloorAsStated ==
    (/\ call.op \in GrowthFloorOps
     /\ call.raised = "none"
     /\ call.solution # <<>>)
        => /\ DOMAIN call.opt_model.reactions = DOMAIN call.optimizer_model.reactions
           /\ \A id \in DOMAIN call.optimizer_model.reactions :
                 call.opt_model.reactions[id] =
                    IF id = BIOMASS
                    THEN [call.optimizer_model.reactions[id]
                             EXCEPT !.lower_bound = FloorOf(call)]
                    ELSE call.optimizer_model.reactions[id]
           /\ call.solution.status = "optimal"
                 => ReportedGrowth(call) >= FloorOf(call)
           /\ call.solution.status # "optimal"
                 => /\ "status" \in DOMAIN FlooredReport(call)
                    /\ FlooredReport(call).status = call.solution.status

Outcome(r) ==
    [raised |-> r.raised, opt_model |-> r.opt_model, solution |-> r.solution,
     results |-> r.results]

\* C9: optimize_fatty_acid_production with a knockout list ends as it may
\* end with the list of those of its ids that are reactions of the model:
\* the same exception or none, the same model solved, in which every listed
\* reaction that exists has bounds (0, 0), and the same results the solver
\* allows.
KnockoutsSkipUnknown ==
    call.op = "optimize_fatty_acid_production" =>
        LET name == call.args[1]
            medium == call.args[2]
            knockouts == call.args[3]
            Exists(ko) == ko \in DOMAIN model.reactions
            existing == SelectSeq(knockouts, Exists)
            runs == fatty_acid_runs(model, demand_reactions, name, medium, existing)
        IN  /\ Outcome(call) \in {Outcome(r) : r \in runs}
            /\ fatty_acid_runs(model, demand_reactions, name, medium, knockouts) = runs
            /\ call.raised = "none" =>
                  \A i \in DOMAIN knockouts :
                      Exists(knockouts[i]) =>
                          /\ call.opt_model.reactions[knockouts[i]].lower_bound = 0
                          /\ call.opt_model.reactions[knockouts[i]].upper_bound = 0

\* a solve that returned with an unknown id before a known one in its list
KnockoutsSkipUnknownWitness ==
    /\ call.op = "optimize_fatty_acid_production"
    /\ call.raised = "none"
    /\ call.args[3] = <<"NOT_A_REACTION", "ACALD">>
    /\ call.results.status = "optimal"
    /\ model.reactions["ACALD"].upper_bound > 0

FluxKeys ==
    {"solution", "model", "growth_rate", "glucose_uptake", "oxygen_uptake",
     "substrate_uptake_actual", "atp_consumption", "yield_mol_per_mol_glucose",
     "yield_mol_per_mol_substrate"}

\* C10: when the solver answers with a status other than optimal,
\* optimize_fatty_acid_production and optimize_cell_free_production return
\* without an exception a result with that status, production_rate 0 and
\* none of the entries read from the solution.
NonOptimalNormalized ==
    (/\ call.op \in SolveOps
     /\ call.solution # <<>>
     /\ call.solution.status # "optimal")
        => /\ call.raised = "none"
           /\ call.results.status = call.solution.status
           /\ call.results.production_rate = 0
           /\ DOMAIN call.results \cap FluxKeys = {}

\* the solver answered infeasible and left an objective value other than 0
NonOptimalNormalizedWitness ==
    /\ call.op = "optimize_fatty_acid_production"
    /\ call.solution # <<>>
    /\ call.solution.status = "infeasible"
    /\ call.solution.objective_value # 0
    /\ call.results.production_rate = 0
    /\ cell_free_model # <<>>

\* the uptake and the yield an optimal result of the call in hand reports
ReportedUptake(c) ==
    IF c.op = "optimize_fatty_acid_production" THEN c.results.glucose_uptake
    ELSE c.results.substrate_uptake_actual

ReportedYield(c) ==
    IF c.op = "optimize_fatty_acid_production"
    THEN c.results.yield_mol_per_mol_glucose
    ELSE c.results.yield_mol_per_mol_substrate

\* C11: in every optimal result of optimize_fatty_acid_production and
\* optimize_cell_free_production the yield is the quotient of the production
\* rate by the uptake the result reports when that uptake is > 0, and is 0
\* when that uptake is 0, whatever the production rate; the quotient never
\* has denominator 0.
YieldGuard ==
    (/\ call.op \in SolveOps
     /\ call.raised = "none"
     /\ call.results.status = "optimal")
        => LET y == ReportedYield(call)
               uptake == ReportedUptake(call)
           IN  /\ y[2] > 0
               /\ uptake >= 0
               /\ uptake > 0 => y[1] * uptake = call.results.production_rate * y[2]
               /\ uptake = 0 => y = <<0, 1>>

\* an optimal result with a production rate and no uptake
YieldGuardWitness ==
    /\ call.op = "optimize_fatty_acid_production"
    /\ call.raised = "none"
    /\ call.results.status = "optimal"
    /\ call.results.glucose_uptake = 0
    /\ call.results.production_rate > 0

-----------------------------------------------------------------------------
(* screen_knockouts over given answers of the solver: the optimizer has    *)
(* its demand reactions, and each call of optimize_fatty_acid_production   *)
(* that screen_knockouts makes gets the answer drawn for it.               *)

\* production rates the solver answers with
ScreenRates == {0, 20, 40, 60}

\* optimize() raised instead of answering
SolverError == [status |-> "raised"]

ScreenAnswers ==
    {[status |-> "optimal", objective_value |-> r, fluxes |-> [k \in {BIOMASS} |-> 5]] :
        r \in ScreenRates}
    \cup {[status |-> "infeasible", objective_value |-> 0,
           fluxes |-> [k \in {BIOMASS} |-> 0]]}
    \cup {SolverError}

ScreenCandidates == {"ACALD", "PTAr", "NOT_A_REACTION"}

\* lists of distinct candidates
CandidateLists ==
    {c \in SeqsUpTo(ScreenCandidates, Cardinality(ScreenCandidates)) :
        \A i, j \in DOMAIN c : i # j => c[i] # c[j]}

\* optimize_fatty_acid_production from the answer of the solver on
run_given(name, answer) ==
    IF answer = SolverError
    THEN [raised |-> "OptimizationError", opt_model |-> model, solution |-> <<>>,
          results |-> <<>>, model |-> model]
    ELSE [raised |-> "none", opt_model |-> model, solution |-> answer,
          results |-> fatty_acid_results(name, answer, model), model |-> model]

RECURSIVE rows_given(_, _, _, _, _)
\* the candidate loop of screen_knockouts; answers holds the answer for each
\* candidate
rows_given(rows, name, candidates, answers, baseline_rate) ==
    IF candidates = <<>> THEN rows
    ELSE rows_given(try_candidate(rows, Head(candidates),
                                  screened(run_given(name, Head(answers))),
                                  baseline_rate),
                    name, Tail(candidates), Tail(answers), baseline_rate)

\* the tables screen_knockouts may return, {} when it raises; answers[1] is
\* the answer to the baseline
tables_given(name, candidates, answers) ==
    LET base == screened(run_given(name, answers[1]))
    IN  IF ~ base.has_growth_rate THEN {}
        ELSE sort_values(rows_given(<<baseline_row(base)>>, name, candidates,
                                    Tail(answers), base.production_rate))

screen_given(name, candidates, answers) ==
    LET base == screened(run_given(name, answers[1]))
        out == [op |-> "screen_knockouts", args |-> <<name, candidates>>,
                raised |-> "none", results |-> <<>>, answers |-> answers]
    IN  /\ call = NoCall
        /\ \/ /\ base.raised # "none"
              /\ call' = [out EXCEPT !.raised = base.raised]
           \/ /\ base.raised = "none"
              /\ ~ base.has_growth_rate
              /\ call' = [out EXCEPT !.raised = "KeyError"]
           \/ \E table \in tables_given(name, candidates, answers) :
                 call' = [out EXCEPT !.results = table]
        /\ UNCHANGED <<network, fba_vars, cf_vars>>

ScreenInit ==
    /\ network = Plain
    /\ model = fresh_optimizer(network).model
    /\ original_model = network
    /\ shared = FALSE
    /\ demand_reactions = fresh_optimizer(network).demand_reactions
    /\ cellular_model = network
    /\ cell_free_model = <<>>
    /\ cf_demand_reactions = <<>>
    /\ call = NoCall

ScreenNext ==
    \/ return_to_caller
    \/ \E candidates \in CandidateLists :
          \E answers \in [1..(Len(candidates) + 1) -> ScreenAnswers] :
              screen_given("octanoic_acid", candidates, answers)

ScreenSpec == ScreenInit /\ [][ScreenNext]_vars

\* screen_knockouts has returned a table
Screened == call.op = "screen_knockouts" /\ call.raised = "none"

\* the rows of the candidates in the table returned
CandidateRows ==
    {call.results[i] : i \in {j \in DOMAIN call.results :
                                 call.results[j].knockouts # "none"}}

BaselineRate == call.answers[1].objective_value

\* C12: every candidate row of the table screen_knockouts returns carries
\* the production rate of that candidate's solve and the improvement
\* (rate - baseline rate) / baseline rate * 100, and the improvement 0 when
\* the baseline rate is 0; no quotient has denominator 0.
ImprovementFormula ==
    Screened =>
        /\ \A row \in CandidateRows :
              /\ row.improvement[2] > 0
              /\ IF BaselineRate > 0
                 THEN row.improvement[1] * BaselineRate
                        = (row.production_rate - BaselineRate) * 100
                            * row.improvement[2]
                 ELSE row.improvement = <<0, 1>>
        /\ \A i \in DOMAIN call.args[2] :
              call.answers[i + 1].status = "optimal"
                => \E row \in CandidateRows :
                      /\ row.knockouts = call.args[2][i]
                      /\ row.production_rate = call.answers[i + 1].objective_value

\* a table with a candidate above and one below a baseline that is not 0
ImprovementFormulaWitness ==
    /\ Screened
    /\ BaselineRate = 40
    /\ \E row \in CandidateRows : row.improvement = <<50, 1>>
    /\ \E row \in CandidateRows : row.improvement = <<-50, 1>>

\* the ways to give the candidates of the call in hand, each with its
\* answer, in another order
Reorderings ==
    LET n == Len(call.args[2])
    IN  {p \in [1..n -> 1..n] : \A i, j \in 1..n : i # j => p[i] # p[j]}

\* the tables screen_knockouts may return for the candidates in the order p
TablesReordered(p) ==
    tables_given(call.args[1],
                 [i \in DOMAIN call.args[2] |-> call.args[2][p[i]]],
                 [i \in DOMAIN call.answers |->
                     IF i = 1 THEN call.answers[1] ELSE call.answers[p[i - 1] + 1]])

Improvements(table) == [i \in DOMAIN table |-> table[i].improvement]

Descending(table) ==
    \A i, j \in DOMAIN table :
        i < j => table[i].improvement[1] * table[j].improvement[2]
                   >= table[j].improvement[1] * table[i].improvement[2]

\* ids in the order of their characters
IdRank == [ACALD |-> 1, NOT_A_REACTION |-> 2, PTAr |-> 3, none |-> 4]

\* C13 as stated: the table screen_knockouts returns is in descending order
\* of improvement, rows of equal improvement are in the order of their
\* candidate ids, and the same candidates given in any order return the same
\* table.
ScreeningOrderAsStated ==
    Screened =>
        /\ Descending(call.results)
        /\ \A i, j \in DOMAIN call.results :
              (i < j /\ call.results[i].improvement = call.results[j].improvement)
                 => IdRank[call.results[i].knockouts] < IdRank[call.results[j].knockouts]
        /\ \A p \in Reorderings : TablesReordered(p) = {call.results}

\* C13: the table screen_knockouts returns is in descending order of
\* improvement, and the same candidates given in any order return the same
\* rows with the same sequence of improvements; which of two rows of equal
\* improvement comes first is not determined.
ScreeningOrder ==
    Screened =>
        /\ Descending(call.results)
        /\ \A p \in Reorderings :
              \A table \in TablesReordered(p) :
                  /\ Improvements(table) = Improvements(call.results)
                  /\ {table[i] : i \in DOMAIN table}
                       = {call.results[i] : i \in DOMAIN call.results}

\* a table of three candidates, two of them of equal improvement, that came
\* back against the order of their ids
ScreeningOrderWitness ==
    /\ Screened
    /\ Len(call.results) = 4
    /\ \E i, j \in DOMAIN call.results :
          /\ i < j
          /\ call.results[i].improvement = call.results[j].improvement
          /\ IdRank[call.results[i].knockouts] > IdRank[call.results[j].knockouts]
    /\ \E i \in DOMAIN call.results :
          call.results[i].improvement # call.results[1].improvement

\* the candidates of the call in hand whose solve gave an optimal result
SolvedCandidates ==
    {call.args[2][i] : i \in {j \in DOMAIN call.args[2] :
                                 call.answers[j + 1].status = "optimal"}}

\* the call in hand is the one of the example: baseline rate 4.0 and three
\* candidates of rates 4.0, 6.0, 2.0
RankingExample ==
    /\ Screened
    /\ Len(call.args[2]) = 3
    /\ \A i \in DOMAIN call.answers : call.answers[i].status = "optimal"
    /\ [i \in DOMAIN call.answers |-> call.answers[i].objective_value]
         = <<40, 40, 60, 20>>

\* C14 as stated: the table holds one entry for each candidate solved and no
\* other entry; with baseline rate 4.0 and candidates of rates 4.0, 6.0, 2.0
\* the improvements returned are +50, 0, -50 in that order.
ScreeningOutputAsStated ==
    /\ Screened =>
          /\ {call.results[i].knockouts : i \in DOMAIN call.results} = SolvedCandidates
          /\ Len(call.results) = Cardinality(SolvedCandidates)
    /\ RankingExample =>
          Improvements(call.results) = << <<50, 1>>, <<0, 1>>, <<-50, 1>> >>

\* C14: the table holds the row of the baseline, with knockouts 'none', the
\* baseline rate and improvement 0, and besides it one row for each
\* candidate whose solve was optimal, and no other row; with baseline rate
\* 4.0 and candidates of rates 4.0, 6.0, 2.0 the improvements returned are
\* +50, 0, 0, -50 in that order.
ScreeningOutput ==
    /\ Screened =>
          /\ {call.results[i].knockouts : i \in DOMAIN call.results}
               = SolvedCandidates \cup {"none"}
          /\ Len(call.results) = Cardinality(SolvedCandidates) + 1
          /\ \A i \in DOMAIN call.results :
                call.results[i].knockouts = "none"
                  => /\ call.results[i].improvement = <<0, 1>>
                     /\ call.results[i].production_rate = BaselineRate
    /\ RankingExample =>
          Improvements(call.results) = << <<50, 1>>, <<0, 1>>, <<0, 1>>, <<-50, 1>> >>

\* the table of the example, the candidate of rate 4.0 before the baseline
ScreeningOutputWitness ==
    /\ RankingExample
    /\ call.results[3].knockouts = "none"

\* screen_knockouts was called and the solve of its baseline was optimal
BaselineSolved ==
    /\ call.op = "screen_knockouts"
    /\ call.answers[1].status = "optimal"

Recorded(ko) == \E i \in DOMAIN call.results : call.results[i].knockouts = ko

\* C15 as stated: a candidate whose optimization raises is in the output of
\* the screening, marked as failed, and the other candidates are solved and
\* ranked; the screening returns.
FailureIsolationAsStated ==
    BaselineSolved =>
        /\ call.raised = "none"
        /\ \A i \in DOMAIN call.args[2] :
              /\ call.answers[i + 1] = SolverError => Recorded(call.args[2][i])
              /\ call.answers[i + 1].status = "optimal" => Recorded(call.args[2][i])

\* C15: a candidate whose optimization raises, or whose solve is not
\* optimal, leaves no entry in the output of the screening; each candidate
\* before and after it whose solve is optimal has its row; the screening
\* returns its table whatever the candidates gave.
FailureIsolation ==
    BaselineSolved =>
        /\ call.raised = "none"
        /\ \A i \in DOMAIN call.args[2] :
              IF call.answers[i + 1].status = "optimal"
              THEN \E j \in DOMAIN call.results :
                      /\ call.results[j].knockouts = call.args[2][i]
                      /\ call.results[j].production_rate
                           = call.answers[i + 1].objective_value
              ELSE ~ Recorded(call.args[2][i])

\* the second of three candidates raised, and the first and the third are
\* ranked
FailureIsolationWitness ==
    /\ BaselineSolved
    /\ Len(call.args[2]) = 3
    /\ call.answers[3] = SolverError
    /\ call.answers[2].status = "optimal"
    /\ call.answers[4].status = "optimal"
    /\ Len(call.results) = 3

-----------------------------------------------------------------------------
(* ElectrochemicalCofactorModel.  Potentials are in microvolts and          *)
(* concentrations in tenths of mM; a quotient of concentrations is a       *)
(* fraction in lowest terms.                                               *)

\* self.redox_potentials
redox_potentials ==
    [NAD |-> -320000, NADP |-> -320000, FAD |-> -220000, FMN |-> -220000,
     O2 |-> 820000, H2 |-> 0]

\* concentrations given: none, 0.5, 1.0 and 2.0 mM
ConcentrationInputs == {0, 5, 10, 20}

\* (R * T) / (n_electrons * F) * np.log(ratio) in microvolts, R * T / (2 * F)
\* being 12845.6 microvolts, for the quotients of two concentrations given
nernst_term(ratio) ==
    CASE ratio = <<1, 1>> -> 0
      [] ratio = <<2, 1>> -> 8904
      [] ratio = <<4, 1>> -> 17808
      [] ratio = <<1, 2>> -> -8904
      [] ratio = <<1, 4>> -> -17808

\* a Nernst potential that takes the reduced form at twice the oxidized
nernst_potential_doubled(cofactor_pair, oxidized_conc, reduced_conc) ==
    LET E_standard == redox_potentials[cofactor_pair]
    IN  IF oxidized_conc > 0 /\ reduced_conc > 0
        THEN E_standard - nernst_term(<<2, 1>>)
        ELSE E_standard

\* calculate_nernst_potential
nernst_potential(cofactor_pair, oxidized_conc, reduced_conc) ==
    LET E_standard == redox_potentials[cofactor_pair]
    IN  IF oxidized_conc > 0 /\ reduced_conc > 0
        THEN E_standard - nernst_term(Fraction(reduced_conc, oxidized_conc))
        ELSE E_standard

calculate_nernst_potential(cofactor_pair, oxidized_conc, reduced_conc) ==
    /\ call = NoCall
    /\ call' = [op |-> "calculate_nernst_potential",
                args |-> <<cofactor_pair, oxidized_conc, reduced_conc>>,
                raised |-> "none",
                results |-> nernst_potential(cofactor_pair, oxidized_conc,
                                             reduced_conc)]
    /\ UNCHANGED <<network, fba_vars, cf_vars>>

\* floor(a * b / c) for c > 0, the product never formed in full
MulDiv(a, b, c) == (a \div c) * b + ((a % c) * b) \div c

\* self.faraday_constant
faraday_constant == 96485

\* electrochemical_params['electrode_area']
electrode_area == 10

\* the overpotential above which the exponential form is taken: 0.1 V
HighOverpotential == 100000

\* applied potentials given: the ends and the middle of the sweep, the two
\* at 0.1 V from the standard potential of NADP+/NADPH, that potential, and
\* one 0.02 V above it
AppliedInputs ==
    {-800000, -500000, -420000, -320000, -300000, -220000, -200000}

\* the exponential forms, i0 * np.exp(alpha * F * overpotential / (R * T))
\* above 0 and -i0 * np.exp(-alpha * F * abs(overpotential) / (R * T))
\* below, in 1e-11 A/cm2 (i0 is 1e7 of them, alpha * F / (R * T) is
\* 19.4619 per volt), for the overpotentials the inputs give and for 0.1 V
\* either way
exponential_current(overpotential) ==
    CASE overpotential = -1628904 -> 0
      [] overpotential = -1620000 -> 0
      [] overpotential = -1328904 -> 0
      [] overpotential = -1320000 -> 0
      [] overpotential = -1248904 -> 0
      [] overpotential = -1240000 -> 0
      [] overpotential = -1148904 -> 0
      [] overpotential = -1140000 -> 0
      [] overpotential = -1128904 -> 0
      [] overpotential = -1120000 -> 0
      [] overpotential = -1048904 -> 0
      [] overpotential = -1040000 -> 0
      [] overpotential = -1028904 -> 0
      [] overpotential = -1020000 -> 0
      [] overpotential = -808904 -> -1
      [] overpotential = -800000 -> -2
      [] overpotential = -588904 -> -105
      [] overpotential = -580000 -> -125
      [] overpotential = -508904 -> -500
      [] overpotential = -500000 -> -594
      [] overpotential = -488904 -> -737
      [] overpotential = -480000 -> -877
      [] overpotential = -428904 -> -2370
      [] overpotential = -420000 -> -2819
      [] overpotential = -330000 -> -16247
      [] overpotential = -328904 -> -16597
      [] overpotential = -320000 -> -19738
      [] overpotential = -308904 -> -24495
      [] overpotential = -300000 -> -29130
      [] overpotential = -288904 -> -36152
      [] overpotential = -280000 -> -42992
      [] overpotential = -228904 -> -116214
      [] overpotential = -220000 -> -138203
      [] overpotential = -208904 -> -171516
      [] overpotential = -200000 -> -203968
      [] overpotential = -188904 -> -253132
      [] overpotential = -180000 -> -301027
      [] overpotential = -108904 -> -1200944
      [] overpotential = -100000 -> -1428173
      [] overpotential = 100000 -> 70019509
      [] overpotential = 111096 -> 86896957
      [] overpotential = 120000 -> 103338672

\* i0 * F * overpotential / (R * T) in 1e-11 A/cm2: 389.238 per microvolt
linear_current(overpotential) == MulDiv(overpotential, 389238, 1000)

\* a current density that takes the exponential form from 0.1 V on
current_density_from_boundary(overpotential) ==
    IF Abs(overpotential) >= HighOverpotential
    THEN exponential_current(overpotential)
    ELSE linear_current(overpotential)

\* current density (1e-11 A/cm2) of calculate_electrochemical_rate
current_density(overpotential) ==
    IF Abs(overpotential) > HighOverpotential
    THEN exponential_current(overpotential)
    ELSE linear_current(overpotential)

\* mass_transport_coefficient * A * oxidized_conc * 1e-6 * 1000 in
\* 1e-12 mmol/s
mass_transport_rate(oxidized_conc) == oxidized_conc * 1000000

\* a rate that leaves mass transport out
electrochemical_rate_unlimited(applied_potential, cofactor_pair, oxidized_conc, reduced_conc) ==
    LET overpotential == applied_potential
                           - nernst_potential(cofactor_pair, oxidized_conc,
                                              reduced_conc)
        total_current == current_density(overpotential) * electrode_area
        reaction_rate == MulDiv(Abs(total_current), 10000, 2 * faraday_constant)
    IN  [overpotential |-> overpotential,
         current_density |-> current_density(overpotential),
         reaction_rate |-> reaction_rate,
         mass_transport_rate |-> mass_transport_rate(oxidized_conc),
         actual_rate |-> reaction_rate]

\* calculate_electrochemical_rate with its locals; rates are in 1e-12 mmol/s
electrochemical_rate(applied_potential, cofactor_pair, oxidized_conc, reduced_conc) ==
    LET overpotential == applied_potential
                           - nernst_potential(cofactor_pair, oxidized_conc,
                                              reduced_conc)
        total_current == current_density(overpotential) * electrode_area
        reaction_rate == MulDiv(Abs(total_current), 10000, 2 * faraday_constant)
    IN  [overpotential |-> overpotential,
         current_density |-> current_density(overpotential),
         reaction_rate |-> reaction_rate,
         mass_transport_rate |-> mass_transport_rate(oxidized_conc),
         actual_rate |-> Min(reaction_rate, mass_transport_rate(oxidized_conc))]

\* the concentrations given to calculate_electrochemical_rate: <<oxidized,
\* reduced>>
RateConcentrations == {<<0, 5>>, <<5, 5>>, <<10, 10>>, <<20, 20>>, <<10, 5>>}

calculate_electrochemical_rate(applied_potential, cofactor_pair, oxidized_conc, reduced_conc) ==
    /\ call = NoCall
    /\ call' = [op |-> "calculate_electrochemical_rate",
                args |-> <<applied_potential, cofactor_pair, oxidized_conc,
                           reduced_conc>>,
                raised |-> "none",
                results |-> electrochemical_rate(applied_potential, cofactor_pair,
                                                 oxidized_conc, reduced_conc)]
    /\ UNCHANGED <<network, fba_vars, cf_vars>>

\* int(fatty_acid.split('_')[0][-1]) if that character is a digit, else 8:
\* the first word of each name given ends in a letter
carbon_length(fatty_acid) ==
    CASE fatty_acid = "butanoic_acid" -> 8
      [] fatty_acid = "hexanoic_acid" -> 8
      [] fatty_acid = "octanoic_acid" -> 8
      [] fatty_acid = "decanoic_acid" -> 8
      [] fatty_acid = "dodecanoic_acid" -> 8
      [] fatty_acid = "tetradecanoic_acid" -> 8
      [] fatty_acid = "palmitic_acid" -> 8

\* production rates the solver answers the baseline with, in 1e-9 mmol/gDW/h
BaselineRates == {0, 10, 1000, 100000, 10000000}

BaselineAnswers ==
    {[status |-> "optimal", objective_value |-> r, fluxes |-> <<>>] :
        r \in BaselineRates}
    \cup {[status |-> "infeasible", objective_value |-> 0, fluxes |-> <<>>]}
    \cup {SolverError}

\* baseline_sim = CellFreeSimulator(); baseline_sim.create_cell_free_model();
\* baseline_sim.optimize_cell_free_production(fatty_acid), the solver giving
\* answer
baseline_given(fatty_acid, answer) ==
    LET sim == build_cell_free_model(copy(network).value, <<>>)
        b == IF fatty_acid \notin DOMAIN fatty_acid_map
             THEN [raised |-> "ValueError", model |-> sim.model]
             ELSE build_cell_free_opt_model(copy(sim.model).value,
                                            sim.demand_reactions, fatty_acid,
                                            "glucose", 100)
    IN  IF b.raised # "none" THEN [raised |-> b.raised, results |-> <<>>]
        ELSE IF answer = SolverError
        THEN [raised |-> "OptimizationError", results |-> <<>>]
        ELSE [raised |-> "none",
              results |-> cell_free_results(fatty_acid, "glucose", 100, answer,
                                            b.model)]

\* an enhanced rate that takes the asserted enhancement whatever the
\* electrochemical supply
enhanced_results_asserted(fatty_acid, applied_potential, enhancement_factor, baseline_result) ==
    LET acetyl_units == carbon_length(fatty_acid) \div 2
        baseline_rate == baseline_result.production_rate
        nadph_electrochemical_rate ==
            MulDiv(electrochemical_rate(applied_potential, "NADP", 5, 5).actual_rate,
                   36, 10)
        cofactor_limited_rate == baseline_rate * enhancement_factor
    IN  IF baseline_rate = 0
        THEN [raised |-> "ZeroDivisionError", results |-> <<>>]
        ELSE [raised |-> "none",
              results |->
                [fatty_acid |-> fatty_acid,
                 applied_potential |-> applied_potential,
                 baseline_production_rate |-> baseline_rate,
                 enhanced_production_rate |-> cofactor_limited_rate,
                 enhancement_factor_actual |->
                     Fraction(cofactor_limited_rate, baseline_rate),
                 nadph_requirement |-> baseline_rate * acetyl_units * 2,
                 nadph_electrochemical_rate |-> nadph_electrochemical_rate,
                 atp_requirement |-> baseline_rate * acetyl_units,
                 rate_limiting_factor |-> "enzymatic",
                 status |-> "enhanced"]]

\* the dict model_enhanced_cell_free_system builds from an optimal baseline,
\* without its energy entries; rate / 0 raises ZeroDivisionError.  Rates are
\* in 1e-9 mmol/h.
enhanced_results(fatty_acid, applied_potential, enhancement_factor, baseline_result) ==
    LET acetyl_units == carbon_length(fatty_acid) \div 2
        baseline_rate == baseline_result.production_rate
        nadph_electrochemical_rate ==
            MulDiv(electrochemical_rate(applied_potential, "NADP", 5, 5).actual_rate,
                   36, 10)
        cofactor_limited_rate ==
            Min(nadph_electrochemical_rate \div (acetyl_units * 2),
                baseline_rate * enhancement_factor)
    IN  IF baseline_rate = 0
        THEN [raised |-> "ZeroDivisionError", results |-> <<>>]
        ELSE [raised |-> "none",
              results |->
                [fatty_acid |-> fatty_acid,
                 applied_potential |-> applied_potential,
                 baseline_production_rate |-> baseline_rate,
                 enhanced_production_rate |-> cofactor_limited_rate,
                 enhancement_factor_actual |->
                     Fraction(cofactor_limited_rate, baseline_rate),
                 nadph_requirement |-> baseline_rate * acetyl_units * 2,
                 nadph_electrochemical_rate |-> nadph_electrochemical_rate,
                 atp_requirement |-> baseline_rate * acetyl_units,
                 rate_limiting_factor |->
                     IF cofactor_limited_rate < baseline_rate * enhancement_factor
                     THEN "cofactor_regeneration" ELSE "enzymatic",
                 status |-> "enhanced"]]

\* model_enhanced_cell_free_system, the solver giving answer to its baseline
enhanced_given(fatty_acid, applied_potential, enhancement_factor, answer) ==
    LET baseline == baseline_given(fatty_acid, answer)
    IN  IF baseline.raised # "none" THEN baseline
        ELSE IF baseline.results.status = "optimal"
        THEN enhanced_results(fatty_acid, applied_potential, enhancement_factor,
                              baseline.results)
        ELSE [raised |-> "none",
              results |-> [fatty_acid |-> fatty_acid,
                           error |-> "Baseline optimization failed",
                           status |-> "failed"]]

EnhancementInputs == {1, 10}

model_enhanced_cell_free_system(fatty_acid, applied_potential, enhancement_factor, answer) ==
    LET out == enhanced_given(fatty_acid, applied_potential, enhancement_factor,
                              answer)
    IN  /\ call = NoCall
        /\ call' = [op |-> "model_enhanced_cell_free_system",
                    args |-> <<fatty_acid, applied_potential, enhancement_factor>>,
                    answers |-> <<answer>>,
                    raised |-> out.raised,
                    results |-> out.results]
        /\ UNCHANGED <<network, fba_vars, cf_vars>>

\* the points of the sweep: np.linspace(-0.8, -0.2, 13) has thirteen of them
SweepPoints == 3

\* np.linspace(-0.8, -0.2, SweepPoints)[i - 1]
sweep_potential(i) == -800000 + ((i - 1) * 600000) \div (SweepPoints - 1)

\* the row optimize_applied_potential appends for an enhanced result
sweep_row(potential, result) ==
    [potential |-> potential,
     production_rate |-> result.enhanced_production_rate,
     enhancement_factor |-> result.enhancement_factor_actual]

\* one pass of the loop body: the try block with its status test; an
\* exception is printed and the loop goes on
try_potential(results, evaluated) ==
    IF evaluated.raised = "none" /\ evaluated.results.status = "enhanced"
    THEN Append(results, sweep_row(evaluated.results.applied_potential,
                                   evaluated.results))
    ELSE results

\* a loop that does not go on after a failure: it ends at the first point
\* that fails
RECURSIVE sweep_rows_until_failure(_, _)
sweep_rows_until_failure(results, evaluations) ==
    IF evaluations = <<>> THEN results
    ELSE IF try_potential(results, Head(evaluations)) = results THEN results
    ELSE sweep_rows_until_failure(try_potential(results, Head(evaluations)),
                                  Tail(evaluations))

RECURSIVE sweep_rows(_, _)
sweep_rows(results, evaluations) ==
    IF evaluations = <<>> THEN results
    ELSE sweep_rows(try_potential(results, Head(evaluations)), Tail(evaluations))

\* an idxmax that takes the last row holding the maximum
idxmax_last(rows) ==
    CHOOSE i \in DOMAIN rows :
        /\ \A j \in DOMAIN rows : rows[j].production_rate <= rows[i].production_rate
        /\ \A j \in DOMAIN rows :
              rows[j].production_rate = rows[i].production_rate => j <= i

\* results_df['Production Rate'].idxmax(): the first row holding the maximum
idxmax(rows) ==
    CHOOSE i \in DOMAIN rows :
        /\ \A j \in DOMAIN rows : rows[j].production_rate <= rows[i].production_rate
        /\ \A j \in DOMAIN rows :
              rows[j].production_rate = rows[i].production_rate => i <= j

\* a sweep that answers with a selection of zeros when no point succeeded
sweep_results_zeroed(rows) ==
    IF rows # <<>>
    THEN LET optimal_idx == idxmax(rows)
         IN  [optimal_potential |-> rows[optimal_idx].potential,
              optimal_production_rate |-> rows[optimal_idx].production_rate,
              optimal_enhancement |-> rows[optimal_idx].enhancement_factor,
              results_df |-> rows]
    ELSE [optimal_potential |-> 0,
          optimal_production_rate |-> 0,
          optimal_enhancement |-> Zero,
          results_df |-> rows]

\* what optimize_applied_potential returns from the rows it collected
sweep_results(rows) ==
    IF rows # <<>>
    THEN LET optimal_idx == idxmax(rows)
         IN  [optimal_potential |-> rows[optimal_idx].potential,
              optimal_production_rate |-> rows[optimal_idx].production_rate,
              optimal_enhancement |-> rows[optimal_idx].enhancement_factor,
              results_df |-> rows]
    ELSE [error |-> "No valid results obtained"]

\* optimize_applied_potential, the solver giving answers[i] to the baseline
\* of point i
optimize_applied_potential(fatty_acid, answers) ==
    LET evaluations == [i \in 1..SweepPoints |->
                          enhanced_given(fatty_acid, sweep_potential(i), 10,
                                         answers[i])]
    IN  /\ call = NoCall
        /\ call' = [op |-> "optimize_applied_potential",
                    args |-> <<fatty_acid>>,
                    answers |-> answers,
                    evaluations |-> evaluations,
                    raised |-> "none",
                    results |-> sweep_results(sweep_rows(<<>>, evaluations))]
        /\ UNCHANGED <<network, fba_vars, cf_vars>>

ElectroProducts == {"butanoic_acid", "octanoic_acid", "tetradecanoic_acid", "palmitic_acid"}

ElectroInit ==
    /\ network = Plain
    /\ model = network
    /\ original_model = copy(network).value
    /\ shared = copy(network).shares
    /\ demand_reactions = <<>>
    /\ cellular_model = network
    /\ cell_free_model = <<>>
    /\ cf_demand_reactions = <<>>
    /\ call = NoCall

ElectroNext ==
    \/ return_to_caller
    \/ \E cofactor_pair \in DOMAIN redox_potentials,
          oxidized_conc \in ConcentrationInputs,
          reduced_conc \in ConcentrationInputs :
            calculate_nernst_potential(cofactor_pair, oxidized_conc, reduced_conc)
    \/ \E applied_potential \in AppliedInputs,
          cofactor_pair \in DOMAIN redox_potentials,
          c \in RateConcentrations :
            calculate_electrochemical_rate(applied_potential, cofactor_pair,
                                           c[1], c[2])
    \/ \E fatty_acid \in ElectroProducts, applied_potential \in AppliedInputs,
          enhancement_factor \in EnhancementInputs, answer \in BaselineAnswers :
            model_enhanced_cell_free_system(fatty_acid, applied_potential,
                                            enhancement_factor, answer)
    \/ \E fatty_acid \in ElectroProducts,
          answers \in [1..SweepPoints -> BaselineAnswers] :
            optimize_applied_potential(fatty_acid, answers)

ElectroSpec == ElectroInit /\ [][ElectroNext]_vars

-----------------------------------------------------------------------------
(* Properties of the electrochemical cofactor model                        *)

NernstCall == call.op = "calculate_nernst_potential"

\* C16: calculate_nernst_potential returns the standard potential of the pair
\* when the two concentrations are equal and positive, and when either of
\* them is 0
NernstSymmetry ==
    NernstCall =>
        LET oxidized_conc == call.args[2]
            reduced_conc == call.args[3]
        IN  (\/ oxidized_conc = reduced_conc /\ oxidized_conc > 0
             \/ oxidized_conc = 0
             \/ reduced_conc = 0)
                => call.results = redox_potentials[call.args[1]]

NernstSymmetryWitness ==
    /\ NernstCall
    /\ call.args[1] = "FAD"
    /\ call.args[2] = 10
    /\ call.args[3] = 10
    /\ call.results = -220000

RateCall == call.op = "calculate_electrochemical_rate"

\* C17: the rate calculate_electrochemical_rate returns is the smaller of the
\* kinetic rate and the mass-transport ceiling of the oxidized concentration,
\* so it never exceeds the ceiling; where the ceiling binds, no applied
\* potential of larger magnitude gives a larger rate at the same
\* concentrations
MassTransportLimiting ==
    RateCall =>
        LET applied_potential == call.args[1]
            cofactor_pair == call.args[2]
            oxidized_conc == call.args[3]
            reduced_conc == call.args[4]
            ceiling == mass_transport_rate(oxidized_conc)
            r == call.results
        IN  /\ r.mass_transport_rate = ceiling
            /\ r.actual_rate = Min(r.reaction_rate, ceiling)
            /\ r.actual_rate <= ceiling
            /\ r.reaction_rate >= ceiling =>
                  \A larger \in AppliedInputs :
                      Abs(larger) > Abs(applied_potential) =>
                          electrochemical_rate(larger, cofactor_pair, oxidized_conc,
                                               reduced_conc).actual_rate
                              <= r.actual_rate

MassTransportLimitingWitness ==
    /\ RateCall
    /\ call.args = <<-200000, "NAD", 5, 5>>
    /\ call.results.reaction_rate > call.results.mass_transport_rate
    /\ call.results.actual_rate = 5000000

EnhancedCall == call.op = "model_enhanced_cell_free_system"

\* the call returned the dict of an optimal baseline
Enhanced ==
    /\ call.raised = "none"
    /\ call.results.status = "enhanced"

\* C18: the enhanced production rate model_enhanced_cell_free_system returns
\* for an optimal baseline is the smaller of the hourly NADPH regeneration
\* rate over acetyl_units * 2 and the baseline rate times the enhancement
\* factor, so it exceeds neither
EnhancementCap ==
    EnhancedCall /\ Enhanced =>
        LET r == call.results
            acetyl_units == carbon_length(call.args[1]) \div 2
            regeneration_rate ==
                MulDiv(electrochemical_rate(call.args[2], "NADP", 5, 5).actual_rate,
                       36, 10)
            supply == regeneration_rate \div (acetyl_units * 2)
            asserted == call.answers[1].objective_value * call.args[3]
        IN  /\ r.nadph_electrochemical_rate = regeneration_rate
            /\ r.enhanced_production_rate = Min(supply, asserted)
            /\ r.enhanced_production_rate <= asserted
            /\ r.enhanced_production_rate <= supply

\* the supply binds: at -0.8 V a baseline of 1e-6 mmol/gDW/h with factor 10
\* is held below its tenfold
EnhancementCapWitness ==
    /\ EnhancedCall
    /\ Enhanced
    /\ call.args = <<"octanoic_acid", -800000, 10>>
    /\ call.answers[1].objective_value = 1000
    /\ call.results.rate_limiting_factor = "cofactor_regeneration"
    /\ call.results.enhanced_production_rate < 10000
    /\ call.results.enhanced_production_rate > 0

SweepCall == call.op = "optimize_applied_potential"

\* the sweep returned a selection
Selected == "optimal_potential" \in DOMAIN call.results

\* the rows of the sweep that reach its largest production rate
BestRows ==
    LET rows == call.results.results_df
    IN  {i \in DOMAIN rows :
            \A j \in DOMAIN rows :
                rows[j].production_rate <= rows[i].production_rate}

\* the rates the three points of the sweep produce, in order: <<>> unless
\* every point was evaluated with success
SweepRates ==
    IF Selected /\ Len(call.results.results_df) = SweepPoints
    THEN [i \in 1..SweepPoints |-> call.results.results_df[i].production_rate]
    ELSE <<>>

\* C19 as stated: the potential returned reaches the largest rate of the
\* sweep and, among the potentials that do, has the lowest magnitude
SweepSelectionAsStated ==
    SweepCall /\ Selected =>
        LET rows == call.results.results_df
        IN  \E i \in BestRows :
              /\ call.results.optimal_potential = rows[i].potential
              /\ call.results.optimal_production_rate = rows[i].production_rate
              /\ \A j \in BestRows :
                    Abs(rows[i].potential) <= Abs(rows[j].potential)

\* C19: the potential returned reaches the largest rate of the sweep and,
\* among the potentials that do, is the first in sweep order, which runs from
\* -0.8 V upward: the one of the largest magnitude
SweepSelection ==
    SweepCall /\ Selected =>
        LET rows == call.results.results_df
        IN  \E i \in BestRows :
              /\ call.results.optimal_potential = rows[i].potential
              /\ call.results.optimal_production_rate = rows[i].production_rate
              /\ call.results.optimal_enhancement = rows[i].enhancement_factor
              /\ \A j \in BestRows : i <= j
              /\ \A j \in BestRows :
                    Abs(rows[i].potential) >= Abs(rows[j].potential)

\* two points tie at the largest rate and the one swept first, -0.5 V, is
\* returned rather than -0.2 V
SweepSelectionWitness ==
    /\ SweepCall
    /\ Selected
    /\ SweepRates = <<100, 10000, 10000>>
    /\ call.results.optimal_potential = -500000

\* the largest rate in the middle of the sweep is the one selected
SweepSelectionMiddle ==
    /\ SweepCall
    /\ Selected
    /\ SweepRates = <<100, 10000, 100>>
    /\ call.results.optimal_potential = -500000

\* the points of the sweep at which the enhancement model neither raised nor
\* returned the status 'failed'
SucceededPoints ==
    {i \in DOMAIN call.evaluations :
        /\ call.evaluations[i].raised = "none"
        /\ call.evaluations[i].results.status = "enhanced"}

\* the k-th succeeded point in sweep order
SucceededPoint(k) ==
    CHOOSE i \in SucceededPoints :
        Cardinality({j \in SucceededPoints : j < i}) = k - 1

\* the table of the sweep, <<>> when the sweep returned its error dict
SweepTable == IF Selected THEN call.results.results_df ELSE <<>>

\* C20: a point at which the enhancement model raises or returns the status
\* 'failed' does not end the sweep: every point is evaluated, the table holds
\* the succeeded points and no others, in sweep order, and the sweep returns
\* a selection whenever a point succeeded
SweepFailureIsolation ==
    SweepCall =>
        /\ call.raised = "none"
        /\ DOMAIN call.evaluations = 1..SweepPoints
        /\ Len(SweepTable) = Cardinality(SucceededPoints)
        /\ \A k \in DOMAIN SweepTable :
              /\ SweepTable[k].potential = sweep_potential(SucceededPoint(k))
              /\ SweepTable[k].production_rate =
                    call.evaluations[SucceededPoint(k)].results.enhanced_production_rate
        /\ SucceededPoints # {} <=> Selected
        /\ SucceededPoints = {} =>
              call.results = [error |-> "No valid results obtained"]

\* the first point raises, the second returns the status 'failed', the third
\* succeeds and is the table
SweepFailureIsolationWitness ==
    /\ SweepCall
    /\ call.evaluations[1].raised # "none"
    /\ call.evaluations[2].raised = "none"
    /\ call.evaluations[2].results.status = "failed"
    /\ SucceededPoints = {SweepPoints}
    /\ Selected
    /\ Len(call.results.results_df) = 1
    /\ call.results.optimal_potential = -200000

\* every point of the sweep failed
AllPointsFailed == SweepCall /\ SucceededPoints = {}

\* C21 as stated: a sweep of which every point fails ends by raising
\* NoFeasiblePotentialError
NoFeasiblePotentialRaised ==
    AllPointsFailed => call.raised = "NoFeasiblePotentialError"

\* C21: a sweep of which every point fails raises nothing; it returns the
\* dict {'error': 'No valid results obtained'}, which has none of the keys of
\* a selection
NoFeasiblePotential ==
    AllPointsFailed =>
        /\ call.raised = "none"
        /\ call.results = [error |-> "No valid results obtained"]
        /\ ~Selected

\* the solver raises at every point for a supported product
NoFeasiblePotentialWitness ==
    /\ AllPointsFailed
    /\ call.args = <<"octanoic_acid">>
    /\ \A i \in 1..SweepPoints : call.evaluations[i].raised = "OptimizationError"
    /\ "error" \in DOMAIN call.results

-----------------------------------------------------------------------------
(* Properties of requests, batches and the registry                        *)

\* the entry points of the optimizer and the simulator that take a product
\* name, which is their first argument
ProductOps ==
    {"optimize_fatty_acid_production", "optimize_cell_free_production",
     "screen_knockouts", "test_substrate_preferences"}

\* the call in hand names a product that fatty_acid_map does not hold
UnsupportedRequest ==
    /\ call.op \in ProductOps
    /\ call.args[1] \notin DOMAIN fatty_acid_map

\* C22 as stated: a call of an entry point that names an unsupported product
\* ends with a ValueError and returns nothing, a table of zero-valued rows
\* least of all
UnsupportedProductFails ==
    UnsupportedRequest =>
        /\ call.raised = "ValueError"
        /\ call.results = <<>>

\* test_substrate_preferences answers an unsupported product with a row of
\* zeros for each substrate
UnsupportedProductZeroTable ==
    /\ UnsupportedRequest
    /\ call.op = "test_substrate_preferences"
    /\ call.raised = "none"
    /\ Len(call.results) = Len(substrates)
    /\ \A i \in DOMAIN call.results :
          /\ call.results[i].production_rate = 0
          /\ call.results[i].yield = Zero
          /\ call.results[i].status = "Error: ValueError"

\* an optimal result of optimize_cell_free_production on one of the three
\* substrates that have a medium
OptimalCellFree ==
    /\ call.op = "optimize_cell_free_production"
    /\ call.raised = "none"
    /\ call.results.status = "optimal"
    /\ substrate_exchange(call.args[2]) # {}

\* the magnitude of the flux the solution of the call in hand has through
\* the exchange reaction of its substrate
UptakeFlux ==
    LET exchange == CHOOSE id \in substrate_exchange(call.args[2]) : TRUE
    IN  Abs(Get(call.solution.fluxes, exchange, 0))

\* C23 as stated: substrate_uptake_actual of an optimal cell-free result is
\* the magnitude of the flux through the exchange reaction whose uptake the
\* medium set for the substrate, and the yield is the production rate over
\* that flux when the flux is not zero
UptakeFromOwnExchange ==
    OptimalCellFree =>
        /\ call.results.substrate_uptake_actual = UptakeFlux
        /\ UptakeFlux # 0 =>
              call.results.yield_mol_per_mol_substrate
                  = Fraction(call.results.production_rate, UptakeFlux)

\* glucose is taken up at 10 mmol/gDW/h and the result reports an uptake of 0
\* and a yield of 0 for a positive production rate
GlucoseUptakeLost ==
    /\ OptimalCellFree
    /\ call.args[2] = "glucose"
    /\ UptakeFlux = 100
    /\ call.results.production_rate > 0
    /\ call.results.substrate_uptake_actual = 0
    /\ call.results.yield_mol_per_mol_substrate = Zero

\* the solver answered with a status other than optimal
NonOptimal(answer) == answer.status \notin {"optimal", "raised"}

\* the table of the call in hand has a row for ko with rates of 0
ZeroRow(ko) ==
    \E i \in DOMAIN call.results :
        /\ call.results[i].knockouts = ko
        /\ call.results[i].production_rate = 0
        /\ call.results[i].growth_rate = 0

\* C24 as stated: screen_knockouts returns a table when the solve of its
\* baseline is not optimal, the baseline entering with rates of 0 and every
\* improvement being 0; a candidate whose solve is not optimal enters the
\* table with rates of 0
BatchNonOptimalZeros ==
    call.op = "screen_knockouts" /\ "answers" \in DOMAIN call =>
        /\ NonOptimal(call.answers[1]) =>
              /\ call.raised = "none"
              /\ ZeroRow("none")
              /\ \A i \in DOMAIN call.results : call.results[i].improvement = Zero
        /\ call.answers[1].status = "optimal" =>
              \A i \in DOMAIN call.args[2] :
                  NonOptimal(call.answers[i + 1]) => ZeroRow(call.args[2][i])

\* the baseline solve is infeasible and screen_knockouts ends with the
\* KeyError of baseline['growth_rate'], with no table
BaselineNonOptimalRaises ==
    /\ call.op = "screen_knockouts"
    /\ "answers" \in DOMAIN call
    /\ NonOptimal(call.answers[1])
    /\ call.raised = "KeyError"
    /\ call.results = <<>>

-----------------------------------------------------------------------------
(* Properties of the enhancement model                                     *)

\* the carbon chain length of each supported product
chain_carbons ==
    [butanoic_acid      |-> 4,
     hexanoic_acid      |-> 6,
     octanoic_acid      |-> 8,
     decanoic_acid      |-> 10,
     dodecanoic_acid    |-> 12,
     tetradecanoic_acid |-> 14]

\* C25 as stated: the cofactor demands of an enhanced result follow the
\* chain length of its product: with acetyl_units the carbon count halved,
\* the NADPH demand is the baseline rate times acetyl_units * 2 and the ATP
\* demand the baseline rate times acetyl_units
DemandFollowsChainLength ==
    EnhancedCall /\ Enhanced =>
        LET acetyl_units == chain_carbons[call.args[1]] \div 2
            baseline_rate == call.results.baseline_production_rate
        IN  /\ call.results.nadph_requirement = baseline_rate * acetyl_units * 2
            /\ call.results.atp_requirement = baseline_rate * acetyl_units

\* butanoic_acid at a baseline of 1e-6 mmol/gDW/h is given the demands of
\* four acetyl units, not of two
ButanoicGivenFourUnits ==
    /\ EnhancedCall
    /\ Enhanced
    /\ call.args[1] = "butanoic_acid"
    /\ call.results.baseline_production_rate = 1000
    /\ call.results.nadph_requirement = 8000
    /\ call.results.atp_requirement = 4000

\* model_enhanced_cell_free_system was called for a supported product and
\* the solve of its baseline was optimal with a production rate of 0
ZeroBaseline ==
    /\ EnhancedCall
    /\ call.args[1] \in DOMAIN fatty_acid_map
    /\ call.answers[1].status = "optimal"
    /\ call.answers[1].objective_value = 0

\* C26 as stated: with an optimal baseline of rate 0 the enhancement model
\* raises nothing and returns a record of status 'enhanced' whose enhanced
\* rate, demands and actual enhancement factor are 0
ZeroBaselineGuarded ==
    ZeroBaseline =>
        /\ call.raised = "none"
        /\ call.results.status = "enhanced"
        /\ call.results.enhanced_production_rate = 0
        /\ call.results.nadph_requirement = 0
        /\ call.results.atp_requirement = 0
        /\ call.results.enhancement_factor_actual = Zero

\* the division by the baseline rate ends the call
ZeroBaselineRaises ==
    /\ ZeroBaseline
    /\ call.raised = "ZeroDivisionError"
    /\ call.results = <<>>

-----------------------------------------------------------------------------
(* Properties of the electrode kinetics                                    *)

\* electrochemical_params['exchange_current_density'], in 1e-11 A/cm2
exchange_current_density == 10000000

\* C27: calculate_electrochemical_rate takes the exponential form of the
\* current density exactly when the magnitude of the overpotential exceeds
\* 0.1 V, anodic (at or above i0) for a positive overpotential and cathodic
\* (negative, of magnitude at most i0) for a negative one, and the linear
\* form i0 * F * overpotential / (R * T) up to and at 0.1 V; the overpotential
\* is the applied potential less the Nernst potential, and an overpotential
\* of 0 gives a rate of 0
ButlerVolmerBranch ==
    RateCall =>
        LET r == call.results
            overpotential == r.overpotential
        IN  /\ overpotential
                 = call.args[1] - nernst_potential(call.args[2], call.args[3],
                                                   call.args[4])
            /\ IF Abs(overpotential) > HighOverpotential
               THEN /\ r.current_density = exponential_current(overpotential)
                    /\ overpotential > 0 => r.current_density >= exchange_current_density
                    /\ overpotential < 0 =>
                          /\ r.current_density <= 0
                          /\ r.current_density >= -exchange_current_density
               ELSE r.current_density = MulDiv(overpotential, 389238, 1000)
            /\ r.reaction_rate
                 = MulDiv(Abs(r.current_density * electrode_area), 10000,
                          2 * faraday_constant)
            /\ overpotential = 0 => r.reaction_rate = 0 /\ r.actual_rate = 0

\* at an overpotential of exactly 0.1 V the current density is the linear one
ButlerVolmerBranchWitness ==
    /\ RateCall
    /\ call.args = <<-220000, "NADP", 5, 5>>
    /\ call.results.overpotential = HighOverpotential
    /\ call.results.current_density = 38923800
    /\ call.results.current_density # exponential_current(HighOverpotential)

\* an overpotential above 0.1 V takes the anodic exponential
ButlerVolmerAnodic ==
    /\ RateCall
    /\ call.results.overpotential = 120000
    /\ call.results.current_density = 103338672

\* an overpotential of 0 gives a rate of 0
ButlerVolmerAtRest ==
    /\ RateCall
    /\ call.results.overpotential = 0
    /\ call.args[3] > 0
    /\ call.results.actual_rate = 0

-----------------------------------------------------------------------------
(* Properties of the registry and of reset_model                           *)

\* the step is a call of op
Calls(op) == call = NoCall /\ call'.op = op

\* the steps of the registry protocol
RegistryStep ==
    /\ Calls("optimize_fatty_acid_production")
         /\ call'.args[1] \in DOMAIN fatty_acid_map
         => /\ call'.raised = "none" => call'.args[1] \in DOMAIN demand_reactions
            /\ call'.args[1] \notin DOMAIN demand_reactions =>
                  /\ call'.raised = "KeyError"
                  /\ call'.solution = <<>>
                  /\ call'.results = <<>>
                  /\ model' = model
                  /\ demand_reactions' = demand_reactions
    /\ demand_reactions = <<>> /\ demand_reactions' # <<>>
         => Calls("add_demand_reactions")
    /\ Calls("add_demand_reactions") => demand_reactions' # <<>>
    /\ Calls("reset_model") => demand_reactions' = <<>>

\* C28: the registry is empty on a new optimizer and after reset_model, and
\* only add_demand_reactions fills it; optimize_fatty_acid_production for a
\* supported product returns a result only when the registry holds the
\* product, and otherwise ends with a KeyError before any solve, with model
\* and demand_reactions as they were
RegistryProtocol == [][RegistryStep]_vars

\* optimize_fatty_acid_production was called on an empty registry, with the
\* default medium, and ended with the KeyError
RegistryProtocolWitness ==
    /\ call.op = "optimize_fatty_acid_production"
    /\ call.args = <<"octanoic_acid", <<>>, <<>>>>
    /\ demand_reactions = <<>>
    /\ call.raised = "KeyError"
    /\ call.solution = <<>>

\* after add_demand_reactions the same call returns a result
RegistryProtocolServed ==
    /\ call.op = "optimize_fatty_acid_production"
    /\ call.args = <<"octanoic_acid", <<>>, <<>>>>
    /\ "octanoic_acid" \in DOMAIN demand_reactions
    /\ call.raised = "none"
    /\ call.results.status = "optimal"

\* C29: every id the optimizer's demand_reactions holds is the id of a
\* reaction of self.model, and every id the simulator's demand_reactions
\* holds is the id of a reaction of self.cell_free_model, in every state the
\* calls of the two classes reach in any order
RegistryInvariant ==
    /\ \A n \in DOMAIN demand_reactions :
          demand_reactions[n] \in DOMAIN model.reactions
    /\ \A n \in DOMAIN cf_demand_reactions :
          /\ cell_free_model # <<>>
          /\ cf_demand_reactions[n] \in DOMAIN cell_free_model[1].reactions

\* both registries are filled, the optimizer's again after a reset, and a
\* call that solves on a copy has returned
RegistryInvariantWitness ==
    /\ call.op \in {"optimize_fatty_acid_production", "screen_knockouts"}
    /\ call.raised = "none"
    /\ "octanoic_acid" \in DOMAIN demand_reactions
    /\ "octanoic_acid" \in DOMAIN cf_demand_reactions
    /\ demand_reactions["octanoic_acid"] \in DOMAIN model.reactions
    /\ demand_reactions["octanoic_acid"] \notin DOMAIN original_model.reactions

\* the steps of an optimizer whose original is kept: no call changes
\* original_model, which is the network as loaded; reset_model leaves the
\* optimizer as its construction does; add_demand_reactions on that state
\* gives what it gives on a new optimizer
ResetStep ==
    /\ original_model' = original_model
    /\ original_model' = network
    /\ Calls("reset_model") =>
          /\ model' = network
          /\ demand_reactions' = <<>>
          /\ shared' = FALSE
    /\ Calls("add_demand_reactions") /\ model = network /\ demand_reactions = <<>> =>
          /\ model' = fresh_optimizer(network).model
          /\ demand_reactions' = fresh_optimizer(network).demand_reactions

\* C30: no operation of the optimizer modifies original_model; after
\* reset_model, from any reachable state, self.model has the reactions and
\* bounds of the network as loaded and demand_reactions is empty, which is
\* the state of a new optimizer, so that add_demand_reactions after
\* reset_model gives what it gives on a new optimizer
ResetRestores == [][ResetStep]_vars

\* reset_model has put back a network that was loaded with a demand reaction
\* of its own, which the model keeps while the registry is empty
ResetRestoresWitness ==
    /\ call.op = "reset_model"
    /\ network = WithOtherDemand
    /\ model = network
    /\ original_model = network
    /\ demand_reactions = <<>>
    /\ "DM_occoa_c" \in DOMAIN model.reactions
    /\ "DM_btcoa_c" \notin DOMAIN model.reactions

====
